---- MODULE Spec2Model ----
(***************************************************************************)
(* liblbHttpd: the WebSocket session (WebSocket.cpp), the Senders handle   *)
(* (SendersImpl.h) and the session scheduler of Server.cpp, for one        *)
(* upgraded connection.                                                    *)
(*                                                                         *)
(* Two threads touch the session: the scheduler thread (poll, receive,     *)
(* parseFrame, erase of closed sessions) and a user thread that calls the  *)
(* Senders handle it was given in ConnectionEstablished.  The handle's     *)
(* mutex serialises user calls among themselves only; nothing serialises   *)
(* a user call against the scheduler thread, so a user call is modelled as *)
(* a sequence of steps (guard, then one step per sendFrame) that the       *)
(* scheduler's steps may interleave with.                                  *)
(*                                                                         *)
(* Environment assumptions: the socket is blocking and healthy, so every   *)
(* sendFrame puts its whole frame on the wire; the frame decoder of        *)
(* liblbEncoding hands parseFrame whole frames, control frames with FIN=1. *)
(* A default-constructed encoding::websocket::Header has fin = false and   *)
(* isMasked = false (sendMessage sets fin only on its last frame and       *)
(* documents that the server never masks).                                 *)
(***************************************************************************)
EXTENDS Integers, Sequences, FiniteSets, TLC

\* ------------------------------------------------------------------ bounds

\* Peer frames handled over the life of the connection, under Spec (both
\* threads) and under RecvSpec (the scheduler thread alone).
MaxPeerFrames == 2
MaxRecvFrames == 3
\* Frames one recv()/decode() may hand to parseFrame.
MaxBatch == 2
\* Calls the user thread makes through its Senders handle.
MaxCalls == 2
\* Longest short message of the sendMessage inputs (the inputs also hold the
\* lengths around the 125/126 and 65535/65536 header-size steps).
MaxSendLen == 7
\* Largest small maxFrameSize of the sendMessage inputs.
MaxFrameSizeSmall == 7
\* Most iterations of sendMessage's loop an input of SendSpec may need.
MaxSendFrames == 32
\* Longest short payload or reason of the control-frame inputs (the inputs
\* also hold the lengths around the 125-byte limit of a control payload).
MaxCtlLen == 3

\* The clock advances in steps of TickMs up to MaxTimeMs (TimedSpec), where
\* the peer sends at most MaxTimedFrames frames.
TickMs == 250
MaxTimeMs == 1000
MaxTimedFrames == 1
\* Calls of receiveData / receiveControl made on a Receivers handle.
MaxReceiverCalls == 3
\* Calls of isHandled / connectionEstablised made on a Handler.
MaxHandlerCalls == 3
\* HTTP requests one Server serves.
MaxRequests == 2
\* upgrades each Server instance handles
MaxUpgrades == 3
\* calls the user threads make on one Senders handle
MaxSenderCalls == 3
\* frames written to one socket, the payload of each, and the ::send calls
\* one sendFrame makes
MaxWireFrames == 2
MaxWirePayload == 1
MaxSends == 3
\* calls made on a handle whose user function may revoke it
MaxRevokeCalls == 3
\* sessions the scheduler thread serves, socket events it is given, and
\* frames a socket's send buffer takes before ::send blocks
MaxLoopSessions == 2
MaxLoopEvents == 3
SendBufferFrames == 1
\* fds and callbacks handed to one Poller, calls of add / remove made on it
\* and poll cycles it runs
MaxFds == 2
MaxCallbacks == 2
MaxPollerCalls == 4
MaxPollerCycles == 3

\* ------------------------------------------------------------- vocabulary

Text == "Text"
Binary == "Binary"
Continuation == "Continuation"
ConnectionClose == "ConnectionClose"
Ping == "Ping"
Pong == "Pong"

DataOpCodes == {Text, Binary}
ControlOpCodes == {ConnectionClose, Ping, Pong}

\* closestatus codes used by the session.
GoingAway == 1001
ProtocolError == 1002

\* The only connection of the model.
ConnID == 0

\* The timeout webSocketLoop passes to the poller, and canClose's
\* closeTimeoutMilliseconds.
PollTimeoutMs == 500
CloseTimeoutMs == 2000

NoFrag == [present |-> FALSE]

\* ------------------------------------------------------------ frame codec

\* encoding::websocket::Header::encodedSizeInBytes: RFC 6455 5.2 header size.
EncodedSizeInBytes(payloadSize, isMasked) ==
    2 + (IF payloadSize <= 125 THEN 0 ELSE IF payloadSize <= 65535 THEN 2 ELSE 8)
      + (IF isMasked THEN 4 ELSE 0)

\* encoding::websocket::Header{}: a default-constructed header.
DefaultHeader == [opCode |-> Continuation, fin |-> FALSE, isMasked |-> FALSE]

\* closestatus::encodePayloadCode: the code as 2 bytes in network order.
EncodePayloadCode(code) == <<code \div 256, code % 256>>

\* What sendFrame( header, p ) puts on the wire: the header's fields and
\* header.payloadSize bytes from p.
Frame(header, bytes) ==
    [opCode |-> header.opCode, fin |-> header.fin,
     isMasked |-> header.isMasked, payload |-> bytes]

\* Size on the wire of a frame as sendFrame encodes it.
EncodedFrameSize(f) == EncodedSizeInBytes(Len(f.payload), f.isMasked) + Len(f.payload)

\* ------------------------------------------------- WebSocket::sendMessage

\* The while loop of sendMessage and the final frame after it.  pos is p
\* (1-based), remaining is numPayloadBytesRemaining, opCode is header.opCode
\* as the previous iteration left it.
RECURSIVE SendLoop(_, _, _, _, _, _, _)
SendLoop(payload, pos, remaining, maxFrameSize, hdrSize, sentFirstFrame, opCode) ==
    IF maxFrameSize > 0 /\ remaining + hdrSize > maxFrameSize
    THEN LET op == IF sentFirstFrame THEN Continuation ELSE opCode
             size == maxFrameSize - hdrSize
             h == [DefaultHeader EXCEPT !.opCode = op]
         IN <<Frame(h, SubSeq(payload, pos, pos + size - 1))>>
            \o SendLoop(payload, pos + size, remaining - size, maxFrameSize,
                        hdrSize, TRUE, op)
    ELSE LET h == [DefaultHeader EXCEPT !.opCode = opCode, !.fin = TRUE]
         IN <<Frame(h, SubSeq(payload, pos, pos + remaining - 1))>>

\* sendMessage with the header size it splits by taken one byte too small.
SendMessageHeaderOffByOne(closeHandshake, payload, maxFrameSize) ==
    IF closeHandshake # "None"
    THEN [result |-> "Closed", frames |-> <<>>]
    ELSE LET encodedHeaderSize == EncodedSizeInBytes(Len(payload), FALSE)
         IN IF maxFrameSize # 0 /\ maxFrameSize <= encodedHeaderSize
            THEN [result |-> "Failure", frames |-> <<>>]
            ELSE [result |-> "Success",
                  frames |-> SendLoop(payload, 1, Len(payload), maxFrameSize,
                                      encodedHeaderSize - 1, FALSE, Text)]

\* WebSocket::sendMessage: the result and the frames handed to sendFrame.
SendMessage(closeHandshake, payload, maxFrameSize) ==
    IF closeHandshake # "None"
    THEN [result |-> "Closed", frames |-> <<>>]
    ELSE LET encodedHeaderSize == EncodedSizeInBytes(Len(payload), FALSE)
         IN IF maxFrameSize # 0 /\ maxFrameSize <= encodedHeaderSize
            THEN [result |-> "Failure", frames |-> <<>>]
            ELSE [result |-> "Success",
                  frames |-> SendLoop(payload, 1, Len(payload), maxFrameSize,
                                      encodedHeaderSize, FALSE, Text)]

\* --------------------------------- WebSocket::sendClose / sendPing / sendPong

\* What a send operation of the session decides before it touches the
\* socket: its result, the frames it hands to sendFrame, the close-handshake
\* state it leaves and whether it ends by invoking closeCallback.
Refused(closeHandshake) ==
    [result |-> "Closed", frames |-> <<>>,
     closeHandshake |-> closeHandshake, callback |-> FALSE]

\* WebSocket::sendMessage as a send operation.
SendMessageOp(closeHandshake, payload, maxFrameSize) ==
    LET r == SendMessage(closeHandshake, payload, maxFrameSize)
    IN [result |-> r.result, frames |-> r.frames,
        closeHandshake |-> closeHandshake, callback |-> FALSE]

\* WebSocket::sendClose.
SendClose(closeHandshake, code, reason) ==
    IF closeHandshake # "None"
    THEN Refused(closeHandshake)
    ELSE LET h == [DefaultHeader EXCEPT !.opCode = ConnectionClose]
         IN [result |-> "Success",
             frames |-> <<Frame(h, EncodePayloadCode(code) \o reason)>>,
             closeHandshake |-> "ServerInitiated", callback |-> TRUE]

\* sendPing without its closeHandshake guard.
SendPingUnguarded(closeHandshake, payload) ==
    LET h == [DefaultHeader EXCEPT !.opCode = Ping]
    IN [result |-> "Failure", frames |-> <<Frame(h, payload)>>,
        closeHandshake |-> closeHandshake, callback |-> FALSE]

\* WebSocket::sendPing.
SendPing(closeHandshake, payload) ==
    IF closeHandshake # "None"
    THEN Refused(closeHandshake)
    ELSE LET h == [DefaultHeader EXCEPT !.opCode = Ping]
         IN [result |-> "Failure", frames |-> <<Frame(h, payload)>>,
             closeHandshake |-> closeHandshake, callback |-> FALSE]

\* WebSocket::sendPong.
SendPong(closeHandshake, payload) ==
    IF closeHandshake # "None"
    THEN Refused(closeHandshake)
    ELSE LET h == [DefaultHeader EXCEPT !.opCode = Pong]
         IN [result |-> "Failure", frames |-> <<Frame(h, payload)>>,
             closeHandshake |-> closeHandshake, callback |-> FALSE]

\* WebSocket::closeConnection: the Close frame of a protocol error or of
\* server teardown.  It has no result; "Success"/"Closed" only tell whether
\* it went past its guard.
CloseConnection(closeHandshake, statusCode, reason) ==
    IF closeHandshake # "None"
    THEN Refused(closeHandshake)
    ELSE LET h == [DefaultHeader EXCEPT !.opCode = ConnectionClose]
         IN [result |-> "Success",
             frames |-> <<Frame(h, EncodePayloadCode(statusCode) \o reason)>>,
             closeHandshake |-> "ServerInitiated", callback |-> TRUE]

\* The send operation behind each method of the Senders handle.
SenderOp(closeHandshake, c) ==
    CASE c.op = "sendData"  -> SendMessageOp(closeHandshake, c.payload, c.maxFrameSize)
      [] c.op = "sendClose" -> SendClose(closeHandshake, c.code, c.payload)
      [] c.op = "sendPing"  -> SendPing(closeHandshake, c.payload)
      [] c.op = "sendPong"  -> SendPong(closeHandshake, c.payload)

\* ------------------------------------------------- WebSocket::parseFrame

\* The reason strings parseFrame passes to closeConnection, abbreviated to
\* their initials ("Unexpected text frame received, expected continuation."
\* and so on); the unmasked-frame close carries no reason.
ReasonUnexpectedText == <<85, 116>>
ReasonUnexpectedBinary == <<85, 98>>
ReasonUnexpectedContinuation == <<85, 99>>

\* A frame put on the wire, tagged with the code path that wrote it.
Written(frames, src) ==
    [i \in 1..Len(frames) |->
        [opCode |-> frames[i].opCode, fin |-> frames[i].fin,
         isMasked |-> frames[i].isMasked, payload |-> frames[i].payload,
         src |-> src]]

\* The outcome of one iteration of parseFrame's loop over the decoded
\* frames: the session fields it leaves, what it wrote, which receivers it
\* invoked, and whether the loop goes on (ret) or parseFrame returns false.
Outcome(closeHandshake, fragmented, out, data, control, callback, closeSenders, ret) ==
    [closeHandshake |-> closeHandshake, fragmented |-> fragmented, out |-> out,
     data |-> data, control |-> control, callback |-> callback,
     closeSenders |-> closeSenders, ret |-> ret]

\* closeConnection( eProtocolError, reason ) followed by return false.
ProtocolErrorOutcome(closeHandshake, fragmented, reason) ==
    LET c == CloseConnection(closeHandshake, ProtocolError, reason)
    IN Outcome(c.closeHandshake, fragmented, Written(c.frames, "error"),
               <<>>, <<>>, c.callback, FALSE, FALSE)

\* case eText / case eBinary without the test for a message in progress.
ParseDataNoFragCheck(closeHandshake, fragmented, frame, dataOpCode, reason) ==
    IF frame.fin
    THEN Outcome(closeHandshake, fragmented, <<>>,
                 <<[opCode |-> dataOpCode, payload |-> frame.payload]>>,
                 <<>>, FALSE, FALSE, TRUE)
    ELSE Outcome(closeHandshake,
                 [present |-> TRUE, dataOpCode |-> dataOpCode, payload |-> frame.payload],
                 <<>>, <<>>, <<>>, FALSE, FALSE, TRUE)

\* case eText / case eBinary.
ParseData(closeHandshake, fragmented, frame, dataOpCode, reason) ==
    IF fragmented.present
    THEN ProtocolErrorOutcome(closeHandshake, fragmented, reason)
    ELSE IF frame.fin
    THEN Outcome(closeHandshake, fragmented, <<>>,
                 <<[opCode |-> dataOpCode, payload |-> frame.payload]>>,
                 <<>>, FALSE, FALSE, TRUE)
    ELSE Outcome(closeHandshake,
                 [present |-> TRUE, dataOpCode |-> dataOpCode, payload |-> frame.payload],
                 <<>>, <<>>, <<>>, FALSE, FALSE, TRUE)

\* case eContinuation without fragmented.reset() after the delivery.
ParseContinuationNoReset(closeHandshake, fragmented, frame) ==
    IF ~fragmented.present
    THEN ProtocolErrorOutcome(closeHandshake, fragmented, ReasonUnexpectedContinuation)
    ELSE IF frame.fin
    THEN Outcome(closeHandshake, fragmented, <<>>,
                 <<[opCode |-> fragmented.dataOpCode, payload |-> fragmented.payload]>>,
                 <<>>, FALSE, FALSE, TRUE)
    ELSE Outcome(closeHandshake,
                 [present |-> TRUE, dataOpCode |-> Text, payload |-> frame.payload],
                 <<>>, <<>>, <<>>, FALSE, FALSE, TRUE)

\* case eContinuation.
ParseContinuation(closeHandshake, fragmented, frame) ==
    IF ~fragmented.present
    THEN ProtocolErrorOutcome(closeHandshake, fragmented, ReasonUnexpectedContinuation)
    ELSE IF frame.fin
    THEN Outcome(closeHandshake, NoFrag, <<>>,
                 <<[opCode |-> fragmented.dataOpCode, payload |-> fragmented.payload]>>,
                 <<>>, FALSE, FALSE, TRUE)
    ELSE Outcome(closeHandshake,
                 [present |-> TRUE, dataOpCode |-> Text, payload |-> frame.payload],
                 <<>>, <<>>, <<>>, FALSE, FALSE, TRUE)

\* case eConnectionClose.
ParseClose(closeHandshake, fragmented, frame) ==
    LET ctl == <<[opCode |-> ConnectionClose, payload |-> frame.payload]>>
        h == [DefaultHeader EXCEPT !.opCode = ConnectionClose]
    IN CASE closeHandshake = "None" ->
              Outcome("ClientInitiated", fragmented,
                      Written(<<Frame(h, frame.payload)>>, "echo"),
                      <<>>, ctl, TRUE, TRUE, FALSE)
         [] closeHandshake = "ServerInitiated" ->
              Outcome("Complete", fragmented, <<>>, <<>>, ctl, TRUE, FALSE, FALSE)
         [] OTHER ->
              Outcome(closeHandshake, fragmented, <<>>, <<>>, ctl, TRUE, FALSE, FALSE)

\* case ePing without the Pong it sends back.
ParsePingNoReply(closeHandshake, fragmented, frame) ==
    Outcome(closeHandshake, fragmented, <<>>, <<>>,
            <<[opCode |-> Ping, payload |-> frame.payload]>>,
            FALSE, FALSE, TRUE)

\* case ePing.
ParsePing(closeHandshake, fragmented, frame) ==
    LET h == [DefaultHeader EXCEPT !.opCode = Pong]
    IN Outcome(closeHandshake, fragmented,
               Written(<<Frame(h, frame.payload)>>, "pong"), <<>>,
               <<[opCode |-> Ping, payload |-> frame.payload]>>,
               FALSE, FALSE, TRUE)

\* case ePong.
ParsePong(closeHandshake, fragmented, frame) ==
    Outcome(closeHandshake, fragmented, <<>>, <<>>,
            <<[opCode |-> ConnectionClose, payload |-> frame.payload]>>,
            FALSE, FALSE, TRUE)

\* The loop body without its test of the mask bit.
ParseOneNoMaskCheck(closeHandshake, fragmented, frame) ==
    CASE frame.opCode = Text ->
           ParseData(closeHandshake, fragmented, frame, Text, ReasonUnexpectedText)
      [] frame.opCode = Binary ->
           ParseData(closeHandshake, fragmented, frame, Binary, ReasonUnexpectedBinary)
      [] frame.opCode = Continuation ->
           ParseContinuation(closeHandshake, fragmented, frame)
      [] frame.opCode = ConnectionClose ->
           ParseClose(closeHandshake, fragmented, frame)
      [] frame.opCode = Ping -> ParsePing(closeHandshake, fragmented, frame)
      [] frame.opCode = Pong -> ParsePong(closeHandshake, fragmented, frame)

\* The body of parseFrame's for loop for one decoded frame.
ParseOne(closeHandshake, fragmented, frame) ==
    IF ~frame.isMasked
    THEN ProtocolErrorOutcome(closeHandshake, fragmented, <<>>)
    ELSE CASE frame.opCode = Text ->
                ParseData(closeHandshake, fragmented, frame, Text, ReasonUnexpectedText)
           [] frame.opCode = Binary ->
                ParseData(closeHandshake, fragmented, frame, Binary, ReasonUnexpectedBinary)
           [] frame.opCode = Continuation ->
                ParseContinuation(closeHandshake, fragmented, frame)
           [] frame.opCode = ConnectionClose ->
                ParseClose(closeHandshake, fragmented, frame)
           [] frame.opCode = Ping -> ParsePing(closeHandshake, fragmented, frame)
           [] frame.opCode = Pong -> ParsePong(closeHandshake, fragmented, frame)

\* ------------------------------------------------------------------ state

VARIABLES
    closeHandshake,    \* WebSocket::closeHandshake
    fragmented,        \* WebSocket::fragmented (std::optional<Fragmented>)
    sendersOpen,       \* whether each Senders::Impl still holds its closures:
                       \*   own  - WebSocket::senders, made by the constructor
                       \*   user - the handle upgradeHandler gave to user code
    webSockets,        \* Server::Private::webSockets (ids of live sessions)
    closedWebSockets,  \* Server::Private::closedWebSockets
    pollFDs,           \* Poller: the sessions whose fd is polled
    running,           \* Server::Private::webSocketRunning
    schedPc,           \* scheduler thread: "poll", "parse", "reap", "stopped"
    pending,           \* number of frames decoded by this recv that parseFrame
                       \* has not handled yet (their content is drawn when handled)
    call,              \* user thread: the Senders call in progress or last made
    wire,              \* frames written to the socket, in order
    delivered,         \* invocations of receivers.receiveData, in order
    controls,          \* invocations of receivers.receiveControl, in order
    peerMsg,           \* history: the data message the peer is in the middle of
    expected,          \* history: the complete messages the peer has sent
    nFrames,           \* history: peer frames handled so far
    nCalls,            \* history: user calls begun so far
    sm,                \* the send function run on its own (SendSpec, CtlSpec)
    clock,             \* steady_clock: now, WebSocket::closeSentTimePoint (-1
                       \* while unset) and the time the poll in progress began
    receivers,         \* a ws::Receivers handle and its copies (ReceiversSpec)
    webSocketHandler,  \* a ws::Handler and its copies (HandlerSpec)
    http,              \* Server::Private::headers and the request being
                       \* served by accessHandlerCallback (GateSpec)
    server,            \* Server::Private and the threads that enter it, where
                       \* a property needs more than one session or thread
    senders            \* one Senders::Impl, the user threads calling it and
                       \* the bytes they put on the socket

sessionVars ==
    <<closeHandshake, fragmented, sendersOpen, webSockets, closedWebSockets,
      pollFDs, running, schedPc, pending, call, wire, delivered, controls,
      peerMsg, expected, nFrames, nCalls, clock>>

\* The parts of the library modelled on their own.
standaloneVars == <<receivers, webSocketHandler, http, server, senders>>

vars == <<sessionVars, sm, standaloneVars>>

\* ----------------------------------------------------------------- inputs

\* The payload of the n-th frame the peer sends: one byte, different for
\* every frame (parseFrame never looks into a payload).
PeerPayload(n) == <<n>>

\* The frames the decoder can hand to parseFrame as the n-th frame of the
\* connection: data frames with either FIN, control frames with FIN=1,
\* masked or not.
PeerFrames(n) ==
    [opCode : {Text, Binary, Continuation}, fin : BOOLEAN,
     isMasked : BOOLEAN, payload : {PeerPayload(n)}]
    \cup [opCode : ControlOpCodes, fin : {TRUE},
          isMasked : BOOLEAN, payload : {PeerPayload(n)}]

\* The calls user code makes on its handle; the data message needs two
\* frames under its maxFrameSize.
CallInputs ==
    [op : {"sendData"}, payload : {<<1, 2, 3>>}, maxFrameSize : {4},
     code : {GoingAway}]
    \cup [op : {"sendClose"}, payload : {<<>>}, maxFrameSize : {0}, code : {GoingAway}]
    \cup [op : {"sendPing", "sendPong"}, payload : {<<9>>}, maxFrameSize : {0},
          code : {GoingAway}]

\* What a call through a closure bound to a destroyed WebSocket may return.
DanglingResults == {"Closed", "Success", "Failure"}

NoCall ==
    [pc |-> "idle", op |-> "none", todo |-> <<>>, result |-> "none",
     callback |-> FALSE, chAtCall |-> "None", written |-> 0, gone |-> FALSE,
     dangling |-> FALSE]

SmIdle == [pc |-> "idle"]

\* The state after a successful upgrade: upgradeHandler has emplaced the
\* WebSocket, handed a Senders handle to ConnectionEstablished and added
\* the socket to the poller.
InitSession ==
    /\ closeHandshake = "None"
    /\ fragmented = NoFrag
    /\ sendersOpen = [own |-> TRUE, user |-> TRUE]
    /\ webSockets = {ConnID}
    /\ closedWebSockets = {}
    /\ pollFDs = {ConnID}
    /\ running = TRUE
    /\ schedPc = "poll"
    /\ pending = 0
    /\ call = NoCall
    /\ wire = <<>>
    /\ delivered = <<>>
    /\ controls = <<>>
    /\ peerMsg = NoFrag
    /\ expected = <<>>
    /\ nFrames = 0
    /\ nCalls = 0
    /\ clock = [now |-> 0, closeSentTimePoint |-> -1, polled |-> 0]

\* No Receivers handle, Handler or HTTP request is under study.
ReceiversIdle == [pc |-> "idle"]
HandlerIdle == [pc |-> "idle"]
HttpIdle == [pc |-> "idle"]
ServerIdle == [pc |-> "idle"]
SendersIdle == [pc |-> "idle"]

InitStandalone ==
    /\ receivers = ReceiversIdle
    /\ webSocketHandler = HandlerIdle
    /\ http = HttpIdle
    /\ server = ServerIdle
    /\ senders = SendersIdle

Init == InitSession /\ sm = SmIdle /\ InitStandalone

\* ------------------------------------------- the peer's view (history only)

\* Whether a frame is one the protocol accepts as part of a data message,
\* given whether the peer is in the middle of a fragmented message.
AcceptedData(msg, f) ==
    /\ f.isMasked
    /\ \/ f.opCode \in DataOpCodes /\ ~msg.present
       \/ f.opCode = Continuation /\ msg.present

\* The message in progress with frame f added to it.
Extended(msg, f) ==
    IF msg.present
    THEN [msg EXCEPT !.payload = @ \o f.payload, !.fragments = @ + 1]
    ELSE [present |-> TRUE, opCode |-> f.opCode, payload |-> f.payload,
          fragments |-> 1]

\* The message in progress after frame f.
PeerMsgAfter(msg, f) ==
    IF ~AcceptedData(msg, f) THEN msg
    ELSE IF f.fin THEN NoFrag ELSE Extended(msg, f)

\* The messages frame f completes: none or one.
Completed(msg, f) ==
    IF AcceptedData(msg, f) /\ f.fin
    THEN LET m == Extended(msg, f)
         IN <<[opCode |-> m.opCode, payload |-> m.payload, fragments |-> m.fragments]>>
    ELSE <<>>

\* ------------------------------------------------------- scheduler thread

\* webSocketLoop -> poller( 500 ) -> WebSocket::receive: recv() returned
\* bytes and the decoder made n frames of them.  A destroyed session's
\* socket is closed and does not become readable.
PollReady(n, limit) ==
    /\ running /\ schedPc = "poll"
    /\ ConnID \in pollFDs /\ ConnID \in webSockets
    /\ nFrames + n <= limit
    /\ pending' = n
    /\ schedPc' = "parse"
    /\ UNCHANGED <<closeHandshake, fragmented, sendersOpen, webSockets,
                   closedWebSockets, pollFDs, running, call, wire, delivered,
                   controls, peerMsg, expected, nFrames, nCalls, sm, clock, standaloneVars>>

\* One iteration of parseFrame's loop, on the next decoded frame f.  When
\* parseFrame returns false the rest of the batch is dropped and
\* Poller::operator() removes the fd.
ParseFrame(f) ==
    /\ schedPc = "parse" /\ pending > 0
    /\ LET o == ParseOne(closeHandshake, fragmented, f)
           more == o.ret /\ pending > 1
       IN /\ closeHandshake' = o.closeHandshake
          /\ fragmented' = o.fragmented
          /\ wire' = wire \o o.out
          /\ delivered' = delivered \o o.data
          /\ controls' = controls \o o.control
          /\ sendersOpen' = IF o.closeSenders
                            THEN [sendersOpen EXCEPT !.own = FALSE]
                            ELSE sendersOpen
          /\ closedWebSockets' = IF o.callback
                                 THEN closedWebSockets \cup {ConnID}
                                 ELSE closedWebSockets
          /\ pending' = IF more THEN pending - 1 ELSE 0
          /\ schedPc' = IF more THEN "parse" ELSE "reap"
          /\ pollFDs' = IF o.ret THEN pollFDs ELSE pollFDs \ {ConnID}
          /\ peerMsg' = PeerMsgAfter(peerMsg, f)
          /\ expected' = expected \o Completed(peerMsg, f)
    /\ nFrames' = nFrames + 1
    /\ UNCHANGED <<webSockets, running, call, nCalls, sm, clock, standaloneVars>>

\* The tail of webSocketLoop's body: erase every session named in
\* closedWebSockets; an unknown id makes the loop return.  It runs after the
\* reads of a poll, and after a poll that timed out with nothing to read.
\* The loop then polls again.
Reap ==
    /\ \/ schedPc = "reap"
       \/ schedPc = "poll" /\ running /\ closedWebSockets # {}
    /\ webSockets' = webSockets \ closedWebSockets
    /\ closedWebSockets' = IF closedWebSockets \subseteq webSockets
                           THEN {} ELSE closedWebSockets
    /\ schedPc' = IF closedWebSockets \subseteq webSockets THEN "poll" ELSE "stopped"
    /\ UNCHANGED <<closeHandshake, fragmented, sendersOpen, pollFDs, running,
                   pending, call, wire, delivered, controls, peerMsg, expected,
                   nFrames, nCalls, sm, standaloneVars>>
    /\ clock' = [clock EXCEPT !.polled = clock.now]

\* Server::Private::~Private: stop and join the scheduler thread, send
\* Close(GoingAway) on every session left and clear the registry.
Teardown ==
    /\ running /\ schedPc = "poll"
    /\ running' = FALSE
    /\ schedPc' = "stopped"
    /\ LET c == IF ConnID \in webSockets
                THEN CloseConnection(closeHandshake, GoingAway, <<>>)
                ELSE Refused(closeHandshake)
       IN /\ closeHandshake' = c.closeHandshake
          /\ wire' = wire \o Written(c.frames, "teardown")
          /\ closedWebSockets' = IF c.callback
                                 THEN closedWebSockets \cup {ConnID}
                                 ELSE closedWebSockets
    /\ webSockets' = {}
    /\ UNCHANGED <<fragmented, sendersOpen, pollFDs, pending, call, delivered,
                   controls, peerMsg, expected, nFrames, nCalls, sm, clock, standaloneVars>>

\* ------------------------------------------------------------ user thread

\* The clock fields after send c has run on the session: sendClose past its
\* guard records closeSentTimePoint = steady_clock::now().
ClockAfterSend(ch, c) ==
    IF c.op = "sendClose" /\ ch = "None"
    THEN [clock EXCEPT !.closeSentTimePoint = clock.now]
    ELSE clock


\* Senders::sendData / sendClose / sendPing / sendPong on the handle user
\* code holds, up to the point where the session method has passed its
\* guard and is about to call sendFrame.  The closures of the handle hold a
\* raw pointer to the WebSocket: once the session has been erased the call
\* runs on a destroyed object and its result is whatever it finds there.
BeginCall(c) ==
    /\ call.pc \in {"idle", "done"}
    /\ nCalls < MaxCalls
    /\ nCalls' = nCalls + 1
    /\ IF ~sendersOpen.user
       THEN /\ call' = [NoCall EXCEPT !.pc = "done", !.op = c.op,
                                      !.result = "Closed",
                                      !.chAtCall = closeHandshake,
                                      !.gone = ConnID \notin webSockets]
            /\ UNCHANGED closeHandshake
       ELSE IF ConnID \notin webSockets
       THEN /\ \E r \in DanglingResults :
                 call' = [NoCall EXCEPT !.pc = "done", !.op = c.op, !.result = r,
                                       !.chAtCall = closeHandshake,
                                       !.gone = TRUE, !.dangling = TRUE]
            /\ UNCHANGED closeHandshake
       ELSE LET o == SenderOp(closeHandshake, c)
            IN /\ call' = [pc |-> IF o.frames = <<>> THEN "done" ELSE "writing",
                           op |-> c.op, todo |-> o.frames, result |-> o.result,
                           callback |-> o.callback, chAtCall |-> closeHandshake,
                           written |-> 0, gone |-> FALSE, dangling |-> FALSE]
               /\ closeHandshake' = o.closeHandshake
    /\ clock' = IF sendersOpen.user /\ ConnID \in webSockets
                THEN ClockAfterSend(closeHandshake, c)
                ELSE clock
    /\ UNCHANGED <<fragmented, sendersOpen, webSockets, closedWebSockets,
                   pollFDs, running, schedPc, pending, wire, delivered,
                   controls, peerMsg, expected, nFrames, sm, standaloneVars>>

\* The next sendFrame of the call in progress; after the last one sendClose
\* invokes closeCallback and the call returns.  If the scheduler erased the
\* session in the meantime the call goes on inside a destroyed object.
WriteFrame ==
    /\ call.pc = "writing"
    /\ IF ConnID \notin webSockets
       THEN /\ call' = [call EXCEPT !.pc = "done", !.todo = <<>>, !.dangling = TRUE]
            /\ UNCHANGED <<wire, closedWebSockets>>
       ELSE LET isLast == Len(call.todo) = 1
            IN /\ wire' = wire \o Written(<<Head(call.todo)>>, call.op)
               /\ call' = [call EXCEPT !.todo = Tail(@), !.written = @ + 1,
                                       !.pc = IF isLast THEN "done" ELSE "writing"]
               /\ closedWebSockets' = IF isLast /\ call.callback
                                      THEN closedWebSockets \cup {ConnID}
                                      ELSE closedWebSockets
    /\ UNCHANGED <<closeHandshake, fragmented, sendersOpen, webSockets, pollFDs,
                   running, schedPc, pending, delivered, controls, peerMsg,
                   expected, nFrames, nCalls, sm, clock, standaloneVars>>

Next ==
    \/ \E n \in 1..MaxBatch : PollReady(n, MaxPeerFrames)
    \/ \E f \in PeerFrames(nFrames + 1) : ParseFrame(f)
    \/ Reap
    \/ Teardown
    \/ \E c \in CallInputs : BeginCall(c)
    \/ WriteFrame

Spec == Init /\ [][Next]_vars

\* The scheduler thread alone: user code makes no call on its handle.
RecvNext ==
    \/ \E n \in 1..MaxBatch : PollReady(n, MaxRecvFrames)
    \/ \E f \in PeerFrames(nFrames + 1) : ParseFrame(f)
    \/ Reap
    \/ Teardown

RecvSpec == Init /\ [][RecvNext]_vars

\* ------------------------------------------------ the session under time

\* Time passes.  parseFrame and the erase pass take no time of the model's
\* grain; poller( 500 ) returns when its timeout ends at the latest, so the
\* clock cannot pass that point while the scheduler still sits in the poll.
Tick ==
    /\ clock.now + TickMs <= MaxTimeMs
    /\ schedPc \in {"poll", "stopped"}
    /\ (running /\ schedPc = "poll")
          => clock.now + TickMs - clock.polled <= PollTimeoutMs
    /\ clock' = [clock EXCEPT !.now = @ + TickMs]
    /\ UNCHANGED <<closeHandshake, fragmented, sendersOpen, webSockets,
                   closedWebSockets, pollFDs, running, schedPc, pending, call,
                   wire, delivered, controls, peerMsg, expected, nFrames,
                   nCalls, sm, standaloneVars>>

\* poller( 500 ) timed out with nothing read and no session to erase: the
\* loop of webSocketLoop polls again.
PollIdle ==
    /\ running /\ schedPc = "poll"
    /\ closedWebSockets = {}
    /\ clock.now + TickMs - clock.polled > PollTimeoutMs
    /\ clock' = [clock EXCEPT !.polled = clock.now]
    /\ UNCHANGED <<closeHandshake, fragmented, sendersOpen, webSockets,
                   closedWebSockets, pollFDs, running, schedPc, pending, call,
                   wire, delivered, controls, peerMsg, expected, nFrames,
                   nCalls, sm, standaloneVars>>

\* Both threads under the clock; user code calls sendClose only.
TimedNext ==
    \/ \E n \in 1..MaxBatch : PollReady(n, MaxTimedFrames)
    \/ \E f \in PeerFrames(nFrames + 1) : ParseFrame(f)
    \/ Reap
    \/ PollIdle
    \/ Teardown
    \/ \E c \in {x \in CallInputs : x.op = "sendClose"} : BeginCall(c)
    \/ WriteFrame
    \/ Tick

TimedSpec == Init /\ [][TimedNext]_vars

\* ------------------------------------------------- the Receivers handle

\* A Receivers handle and its copies: d is the shared pointer all copies
\* hold (null for a default-constructed handle), dataReceiver and
\* controlReceiver tell whether the Impl's functions are valid, mutex who
\* holds Impl::mutex.  One thread calls receiveData / receiveControl through
\* one copy, another calls stopReceiving through another copy.  invoked
\* counts the runs of the user's functions and stopped tells that a
\* stopReceiving has returned (history).
ReceiverMethods == {"receiveData", "receiveControl"}

ReceiversInit ==
    /\ InitSession /\ sm = SmIdle
    /\ webSocketHandler = HandlerIdle /\ http = HttpIdle
    /\ server = ServerIdle /\ senders = SendersIdle
    /\ \E d \in {"null", "impl"}, dr \in BOOLEAN, cr \in BOOLEAN :
         /\ d = "null" => (~dr /\ ~cr)
         /\ receivers = [pc |-> "built", d |-> d,
                         dataReceiver |-> dr, controlReceiver |-> cr,
                         built |-> [receiveData |-> dr, receiveControl |-> cr],
                         mutex |-> "free",
                         caller |-> [pc |-> "idle", method |-> "none", ret |-> FALSE],
                         stopper |-> "idle",
                         invoked |-> [receiveData |-> 0, receiveControl |-> 0],
                         stopped |-> FALSE, calls |-> 0]

ReceiversUnchanged ==
    UNCHANGED <<sessionVars, sm, webSocketHandler, http, server, senders>>

\* Receivers::receiveData / receiveControl: with a null d return false, else
\* go on into the Impl.
ReceiversCall(m) ==
    /\ receivers.pc = "built"
    /\ receivers.caller.pc \in {"idle", "returned"}
    /\ receivers.calls < MaxReceiverCalls
    /\ receivers' = [receivers EXCEPT
          !.calls = @ + 1,
          !.caller = IF receivers.d = "null"
                     THEN [pc |-> "returned", method |-> m, ret |-> FALSE]
                     ELSE [pc |-> "waiting", method |-> m, ret |-> FALSE]]
    /\ ReceiversUnchanged

\* Receivers::Impl::receiveData / receiveControl take the mutex.
ImplLock ==
    /\ receivers.pc = "built"
    /\ receivers.caller.pc = "waiting" /\ receivers.mutex = "free"
    /\ receivers' = [receivers EXCEPT !.mutex = "caller", !.caller.pc = "locked"]
    /\ ReceiversUnchanged

\* Under the mutex: invoke the user's function if it is valid; release the
\* mutex; the handle's method returns true.
ImplReceive ==
    /\ receivers.pc = "built"
    /\ receivers.caller.pc = "locked"
    /\ LET m == receivers.caller.method
           valid == IF m = "receiveData" THEN receivers.dataReceiver
                    ELSE receivers.controlReceiver
       IN receivers' = [receivers EXCEPT
            !.invoked[m] = IF valid THEN @ + 1 ELSE @,
            !.mutex = "free",
            !.caller = [pc |-> "returned", method |-> m, ret |-> TRUE]]
    /\ ReceiversUnchanged

\* Receivers::stopReceiving: nothing to do with a null d, else Impl::close.
StopReceiving ==
    /\ receivers.pc = "built"
    /\ receivers.stopper = "idle"
    /\ receivers' = [receivers EXCEPT
          !.stopper = IF receivers.d = "null" THEN "returned" ELSE "waiting",
          !.stopped = (receivers.d = "null")]
    /\ ReceiversUnchanged

\* Receivers::Impl::close takes the mutex.
CloseLock ==
    /\ receivers.pc = "built"
    /\ receivers.stopper = "waiting" /\ receivers.mutex = "free"
    /\ receivers' = [receivers EXCEPT !.mutex = "stopper", !.stopper = "locked"]
    /\ ReceiversUnchanged

\* Impl::close that resets dataReceiver only.
ImplCloseDataOnly ==
    /\ receivers.pc = "built"
    /\ receivers.stopper = "locked"
    /\ receivers' = [receivers EXCEPT
          !.dataReceiver = FALSE,
          !.mutex = "free", !.stopper = "returned", !.stopped = TRUE]
    /\ ReceiversUnchanged

\* Receivers::Impl::close under the mutex: both functions are reset, the
\* mutex is released and stopReceiving returns.
ImplClose ==
    /\ receivers.pc = "built"
    /\ receivers.stopper = "locked"
    /\ receivers' = [receivers EXCEPT
          !.dataReceiver = FALSE, !.controlReceiver = FALSE,
          !.mutex = "free", !.stopper = "returned", !.stopped = TRUE]
    /\ ReceiversUnchanged

ReceiversNext ==
    \/ \E m \in ReceiverMethods : ReceiversCall(m)
    \/ ImplLock
    \/ ImplReceive
    \/ StopReceiving
    \/ CloseLock
    \/ ImplClose

ReceiversSpec == ReceiversInit /\ [][ReceiversNext]_vars

\* ---------------------------------------------------------- ws::Handler

\* A ws::Handler and its copies, which share one Private: isHandled and
\* connectionEstablished tell whether Private's functions are valid, mutex
\* who holds Private::mutex.  The server's thread calls isHandled /
\* connectionEstablised through one copy, user code calls stopHandling
\* through another.  invoked counts the runs of the user's functions and
\* stopped tells that a stopHandling has returned (history).
HandlerMethods == {"isHandled", "connectionEstablised"}

HandlerInit ==
    /\ InitSession /\ sm = SmIdle
    /\ receivers = ReceiversIdle /\ http = HttpIdle
    /\ server = ServerIdle /\ senders = SendersIdle
    /\ \E ih \in BOOLEAN, ce \in BOOLEAN :
         webSocketHandler =
             [pc |-> "constructing", args |-> [ih |-> ih, ce |-> ce],
              isHandled |-> FALSE, connectionEstablished |-> FALSE,
              mutex |-> "free",
              caller |-> [pc |-> "idle", method |-> "none", outcome |-> "none"],
              stopper |-> "idle",
              invoked |-> [isHandled |-> 0, connectionEstablised |-> 0],
              stopped |-> FALSE, calls |-> 0]

HandlerUnchanged ==
    UNCHANGED <<sessionVars, sm, receivers, http, server, senders>>

\* Handler::Handler -> Private::Private: throws unless both functions are
\* valid.
HandlerConstruct ==
    /\ webSocketHandler.pc = "constructing"
    /\ LET a == webSocketHandler.args
       IN webSocketHandler' =
            IF a.ih /\ a.ce
            THEN [webSocketHandler EXCEPT !.pc = "built", !.isHandled = TRUE,
                                          !.connectionEstablished = TRUE]
            ELSE [webSocketHandler EXCEPT !.pc = "threw"]
    /\ HandlerUnchanged

\* Handler::isHandled / connectionEstablised is called.
HandlerCall(m) ==
    /\ webSocketHandler.pc = "built"
    /\ webSocketHandler.caller.pc \in {"idle", "returned"}
    /\ webSocketHandler.calls < MaxHandlerCalls
    /\ webSocketHandler' = [webSocketHandler EXCEPT
          !.calls = @ + 1,
          !.caller = [pc |-> "waiting", method |-> m, outcome |-> "none"]]
    /\ HandlerUnchanged

\* The call takes d->mutex.
HandlerLock ==
    /\ webSocketHandler.pc = "built"
    /\ webSocketHandler.caller.pc = "waiting" /\ webSocketHandler.mutex = "free"
    /\ webSocketHandler' = [webSocketHandler EXCEPT
          !.mutex = "caller", !.caller.pc = "locked"]
    /\ HandlerUnchanged

\* Under the mutex the call invokes d->isHandled / d->connectionEstablished;
\* an empty std::function throws std::bad_function_call.  The scoped_lock
\* releases the mutex either way.
HandlerInvoke ==
    /\ webSocketHandler.pc = "built"
    /\ webSocketHandler.caller.pc = "locked"
    /\ LET m == webSocketHandler.caller.method
           valid == IF m = "isHandled" THEN webSocketHandler.isHandled
                    ELSE webSocketHandler.connectionEstablished
       IN webSocketHandler' = [webSocketHandler EXCEPT
            !.invoked[m] = IF valid THEN @ + 1 ELSE @,
            !.mutex = "free",
            !.caller = [pc |-> "returned", method |-> m,
                        outcome |-> IF valid THEN "invoked" ELSE "threw"]]
    /\ HandlerUnchanged

\* stopHandling that does not take the mutex.
StopHandlingNoLock ==
    /\ webSocketHandler.pc = "built"
    /\ webSocketHandler.stopper = "idle"
    /\ webSocketHandler' = [webSocketHandler EXCEPT !.stopper = "locked"]
    /\ HandlerUnchanged

\* Handler::stopHandling takes d->mutex.
StopHandling ==
    /\ webSocketHandler.pc = "built"
    /\ webSocketHandler.stopper = "idle" /\ webSocketHandler.mutex = "free"
    /\ webSocketHandler' = [webSocketHandler EXCEPT
          !.mutex = "stopper", !.stopper = "locked"]
    /\ HandlerUnchanged

\* d->isHandled = {};
StopResetIsHandled ==
    /\ webSocketHandler.pc = "built"
    /\ webSocketHandler.stopper = "locked"
    /\ webSocketHandler' = [webSocketHandler EXCEPT
          !.isHandled = FALSE, !.stopper = "half"]
    /\ HandlerUnchanged

\* d->connectionEstablished = {}; the mutex is released and stopHandling
\* returns.
StopResetConnectionEstablished ==
    /\ webSocketHandler.pc = "built"
    /\ webSocketHandler.stopper = "half"
    /\ webSocketHandler' = [webSocketHandler EXCEPT
          !.connectionEstablished = FALSE,
          !.mutex = IF @ = "stopper" THEN "free" ELSE @,
          !.stopper = "returned", !.stopped = TRUE]
    /\ HandlerUnchanged

HandlerNext ==
    \/ HandlerConstruct
    \/ \E m \in HandlerMethods : HandlerCall(m)
    \/ HandlerLock
    \/ HandlerInvoke
    \/ StopHandling
    \/ StopResetIsHandled
    \/ StopResetConnectionEstablished

HandlerSpec == HandlerInit /\ [][HandlerNext]_vars

\* ------------------------------------------------------ the upgrade gate

\* The request headers maybeCreateWebSocketResponse looks at.
Host == "Host"
Upgrade == "Upgrade"
Connection == "Connection"
SecWebSocketVersion == "Sec-WebSocket-Version"
SecWebSocketKey == "Sec-WebSocket-Key"
HeaderNames == {Host, Upgrade, Connection, SecWebSocketVersion, SecWebSocketKey}

\* Server::Private::headers with no entry: every header maps to "absent".
NoHeaders == [h \in HeaderNames |-> "absent"]

\* The header sets a request can carry: each header absent or present, the
\* Upgrade header also with a value other than "websocket".
RequestHeaders ==
    { hs \in [HeaderNames -> {"absent", "set", "websocket", "Upgrade", "other"}] :
        /\ hs[Host] \in {"absent", "set"}
        /\ hs[Upgrade] \in {"absent", "websocket", "other"}
        /\ hs[Connection] \in {"absent", "Upgrade"}
        /\ hs[SecWebSocketVersion] \in {"absent", "set"}
        /\ hs[SecWebSocketKey] \in {"absent", "set"} }

\* The requests: method, HTTP version, what the user's IsHandled returns
\* for the url, and the headers.
Requests ==
    [method : {"GET", "POST"}, version : {<<1, 0>>, <<1, 1>>},
     handled : BOOLEAN, headers : RequestHeaders]

\* keyValueIterator run over the request's headers: headers[ key ] = value.
KeyValueIterator(headers, requestHeaders) ==
    [h \in DOMAIN headers |->
        IF requestHeaders[h] # "absent" THEN requestHeaders[h] ELSE headers[h]]

IsHeaderSet(headers, header) == headers[header] # "absent"

IsHeaderSetTo(headers, header, value) == headers[header] = value

\* maybeCreateWebSocketResponse: TRUE when it creates the upgrade response.
MaybeCreateWebSocketResponse(hasHandler, headers, r) ==
    /\ hasHandler
    /\ r.handled
    /\ r.method = "GET"
    /\ IsHeaderSet(headers, Host)
    /\ IsHeaderSetTo(headers, Upgrade, "websocket")
    /\ IsHeaderSetTo(headers, Connection, "Upgrade")
    /\ IsHeaderSet(headers, SecWebSocketVersion)
    /\ IsHeaderSet(headers, SecWebSocketKey)
    /\ ~(r.version[1] < 1 \/ (r.version[1] = 1 /\ r.version[2] < 1))

GateInit ==
    /\ InitSession /\ sm = SmIdle
    /\ receivers = ReceiversIdle /\ webSocketHandler = HandlerIdle
    /\ server = ServerIdle /\ senders = SendersIdle
    /\ \E hasHandler \in BOOLEAN :
         http = [pc |-> "serving", hasHandler |-> hasHandler,
                 headers |-> NoHeaders, served |-> 0,
                 request |-> [method |-> "none"], response |-> "none",
               passed |-> <<>>]

\* accessHandlerCallback serves request r (its two invocations, both of
\* which run keyValueIterator over the same headers): it answers 101 when
\* maybeCreateWebSocketResponse gives a response, and otherwise calls
\* invokeRequestHandler, which swaps Server::Private::headers out and
\* passes them to the RequestHandler (passed: the Headers of the last such
\* call).
AccessHandlerCallback(r) ==
    /\ http.pc = "serving"
    /\ http.served < MaxRequests
    /\ LET headers == KeyValueIterator(http.headers, r.headers)
           upgrade == MaybeCreateWebSocketResponse(http.hasHandler, headers, r)
       IN http' = [http EXCEPT
            !.headers = IF upgrade THEN headers
                        ELSE [h \in DOMAIN headers |-> "absent"],
            !.served = @ + 1,
            !.request = r,
            !.response = IF upgrade THEN "101" ELSE "RequestHandler",
            !.passed = IF upgrade THEN @ ELSE headers]
    /\ UNCHANGED <<sessionVars, sm, receivers, webSocketHandler, server, senders>>

GateNext == \E r \in Requests : AccessHandlerCallback(r)

GateSpec == GateInit /\ [][GateNext]_vars

\* ------------------------------------- the gate and the case of headers

\* The same headers as a client may spell them: a field name in the
\* canonical or in lower case; keyValueIterator stores the key as sent.
SpelledNames ==
    HeaderNames \cup {"host", "upgrade", "connection",
                      "sec-websocket-version", "sec-websocket-key"}

\* The spellings of one header.
Spellings(h) ==
    CASE h = Host -> {Host, "host"}
      [] h = Upgrade -> {Upgrade, "upgrade"}
      [] h = Connection -> {Connection, "connection"}
      [] h = SecWebSocketVersion -> {SecWebSocketVersion, "sec-websocket-version"}
      [] h = SecWebSocketKey -> {SecWebSocketKey, "sec-websocket-key"}

UpgradeValues == {"websocket", "WebSocket"}
ConnectionValues == {"Upgrade", "keep-alive, upgrade", "close"}

\* The values a header may carry.
SpelledValues(h) ==
    IF h = Upgrade THEN UpgradeValues
    ELSE IF h = Connection THEN ConnectionValues
    ELSE {"set"}

\* One header of a request: absent, or sent under one spelling of its name
\* with one of its values.  The header sets of a request carry every header
\* at most once.
SentHeader(h) ==
    {<<h, "absent">>} \cup { <<k, v>> : k \in Spellings(h), v \in SpelledValues(h) }

SpelledRequestHeaders ==
    { [k \in SpelledNames |->
         IF \E kv \in {a, b, c, d, e} : kv[1] = k /\ kv[2] # "absent"
         THEN (CHOOSE kv \in {a, b, c, d, e} : kv[1] = k)[2]
         ELSE "absent"] :
      a \in SentHeader(Host), b \in SentHeader(Upgrade),
      c \in SentHeader(Connection), d \in SentHeader(SecWebSocketVersion),
      e \in SentHeader(SecWebSocketKey) }

\* GET requests over HTTP/1.1 for a url IsHandled accepts.
SpelledRequests ==
    [method : {"GET"}, version : {<<1, 1>>}, handled : {TRUE},
     headers : SpelledRequestHeaders]

CaseInit ==
    /\ InitSession /\ sm = SmIdle
    /\ receivers = ReceiversIdle /\ webSocketHandler = HandlerIdle
    /\ server = ServerIdle /\ senders = SendersIdle
    /\ http = [pc |-> "serving", hasHandler |-> TRUE,
               headers |-> [k \in SpelledNames |-> "absent"], served |-> 0,
               request |-> [method |-> "none"], response |-> "none",
               passed |-> <<>>]

CaseNext == \E r \in SpelledRequests : AccessHandlerCallback(r)

CaseSpec == CaseInit /\ [][CaseNext]_vars

\* ------------------------------------------ globalConnectionID allocation

\* Two Server instances of one process.  Each runs its upgradeHandler on its
\* own HTTP engine thread; all of them use the one globalConnectionID, a
\* plain integer, so "globalConnectionID++" is a load and a store that the
\* other instance's thread may come between.
Servers == {1, 2}

ServerUnchanged ==
    UNCHANGED <<sessionVars, sm, receivers, webSocketHandler, http, senders>>

IdInit ==
    /\ InitSession /\ sm = SmIdle
    /\ receivers = ReceiversIdle /\ webSocketHandler = HandlerIdle
    /\ http = HttpIdle /\ senders = SendersIdle
    /\ server = [pc |-> "ids", globalConnectionID |-> 0,
                 mhd |-> [i \in Servers |->
                            [pc |-> "idle", connectionID |-> 0, upgrades |-> 0]],
                 webSockets |-> [i \in Servers |-> {}],
                 assigned |-> <<>>]

\* upgradeHandler of instance i reads globalConnectionID.
LoadConnectionID(i) ==
    /\ server.pc = "ids"
    /\ server.mhd[i].pc = "idle"
    /\ server.mhd[i].upgrades < MaxUpgrades
    /\ server' = [server EXCEPT
          !.mhd[i].pc = "loaded",
          !.mhd[i].connectionID = server.globalConnectionID]
    /\ ServerUnchanged

\* ... writes back the value it read plus one, and goes on with the value
\* it read as connectionID: it emplaces the WebSocket under that key in its
\* own webSockets (nothing is added when the key is already there).
StoreConnectionID(i) ==
    /\ server.pc = "ids"
    /\ server.mhd[i].pc = "loaded"
    /\ LET connectionID == server.mhd[i].connectionID
       IN server' = [server EXCEPT
            !.globalConnectionID = connectionID + 1,
            !.mhd[i].pc = "idle",
            !.mhd[i].upgrades = @ + 1,
            !.webSockets[i] = @ \cup {connectionID},
            !.assigned = Append(@, [server |-> i, id |-> connectionID])]
    /\ ServerUnchanged

IdNext == \E i \in Servers : LoadConnectionID(i) \/ StoreConnectionID(i)

IdSpec == IdInit /\ [][IdNext]_vars

\* --------------------------------------------- Server::Private::~Private

\* One Server with several sessions.  Three threads enter it: the HTTP
\* engine's thread (upgradeHandler), the scheduler thread (webSocketLoop)
\* and the thread that destroys the Server.  User code may call sendClose on
\* a session's handle while the session is registered.
\*   dtor: where ~Private is: "none", "stopping" (webSocketRunning = false,
\*         in join), "closing" (the loop over webSockets), "cleared" (after
\*         webSockets.clear()), "done" (after MHD_stop_daemon).
\*   visited: the sessions the loop of ~Private has been at.
\*   late: the sessions emplaced while that loop ran; the loop reads the
\*         map without webSocketMutex, so it may or may not come to them.
\*   foundNone: history, the sessions that were registered with state None
\*         when the loop came to them, or when clear() removed them.
SessionIds == 0..(MaxUpgrades - 1)

DtorInit ==
    /\ InitSession /\ sm = SmIdle
    /\ receivers = ReceiversIdle /\ webSocketHandler = HandlerIdle
    /\ http = HttpIdle /\ senders = SendersIdle
    /\ server = [pc |-> "teardown", globalConnectionID |-> 0,
                 webSockets |-> {}, closedWebSockets |-> {},
                 closeHandshake |-> [id \in SessionIds |-> "None"],
                 wire |-> [id \in SessionIds |-> <<>>],
                 webSocketRunning |-> TRUE, sched |-> "poll",
                 dtor |-> "none", visited |-> {}, late |-> {}, foundNone |-> {}]

\* upgradeHandler: a new session is emplaced under the next id.  The HTTP
\* engine runs until MHD_stop_daemon.
DtorUpgradeHandler ==
    /\ server.pc = "teardown"
    /\ server.dtor # "done"
    /\ server.globalConnectionID < MaxUpgrades
    /\ LET connectionID == server.globalConnectionID
       IN server' = [server EXCEPT
            !.globalConnectionID = @ + 1,
            !.webSockets = @ \cup {connectionID},
            !.late = IF server.dtor = "closing" THEN @ \cup {connectionID} ELSE @]
    /\ ServerUnchanged

\* User code calls sendClose on the handle of a registered session.
DtorUserSendClose(id) ==
    /\ server.pc = "teardown"
    /\ id \in server.webSockets
    /\ LET c == SendClose(server.closeHandshake[id], GoingAway, <<>>)
       IN server' = [server EXCEPT
            !.closeHandshake[id] = c.closeHandshake,
            !.wire[id] = @ \o Written(c.frames, "user"),
            !.closedWebSockets = IF c.callback THEN @ \cup {id} ELSE @]
    /\ ServerUnchanged

\* webSocketLoop after a poll: erase the sessions named in closedWebSockets
\* (an unknown id makes the thread return), or leave the loop once
\* webSocketRunning is false.
DtorWebSocketLoop ==
    /\ server.pc = "teardown"
    /\ server.sched = "poll"
    /\ IF server.webSocketRunning
       THEN server' = [server EXCEPT
              !.webSockets = @ \ server.closedWebSockets,
              !.closedWebSockets =
                  IF server.closedWebSockets \subseteq server.webSockets
                  THEN {} ELSE @,
              !.sched = IF server.closedWebSockets \subseteq server.webSockets
                        THEN "poll" ELSE "stopped"]
       ELSE server' = [server EXCEPT !.sched = "stopped"]
    /\ ServerUnchanged

\* ~Private: webSocketRunning = false.
DtorStop ==
    /\ server.pc = "teardown"
    /\ server.dtor = "none"
    /\ server' = [server EXCEPT !.webSocketRunning = FALSE, !.dtor = "stopping"]
    /\ ServerUnchanged

\* ~Private: webSocketThread.join() returns.
DtorJoin ==
    /\ server.pc = "teardown"
    /\ server.dtor = "stopping"
    /\ server.sched = "stopped"
    /\ server' = [server EXCEPT !.dtor = "closing"]
    /\ ServerUnchanged

\* ~Private: one iteration of the loop, ws.closeConnection( eGoingAway ).
DtorCloseConnection(id) ==
    /\ server.pc = "teardown"
    /\ server.dtor = "closing"
    /\ id \in server.webSockets \ server.visited
    /\ LET c == CloseConnection(server.closeHandshake[id], GoingAway, <<>>)
       IN server' = [server EXCEPT
            !.closeHandshake[id] = c.closeHandshake,
            !.wire[id] = @ \o Written(c.frames, "teardown"),
            !.closedWebSockets = IF c.callback THEN @ \cup {id} ELSE @,
            !.visited = @ \cup {id},
            !.foundNone = IF server.closeHandshake[id] = "None"
                          THEN @ \cup {id} ELSE @]
    /\ ServerUnchanged

\* ~Private: the loop ends and webSockets.clear() runs.  The loop has been
\* at every session that was in the map when it began.
DtorClear ==
    /\ server.pc = "teardown"
    /\ server.dtor = "closing"
    /\ (server.webSockets \ server.visited) \subseteq server.late
    /\ server' = [server EXCEPT
          !.webSockets = {},
          !.dtor = "cleared",
          !.foundNone = @ \cup {id \in server.webSockets \ server.visited :
                                  server.closeHandshake[id] = "None"}]
    /\ ServerUnchanged

\* ~Private: MHD_stop_daemon; the destructor's body is over.
DtorStopDaemon ==
    /\ server.pc = "teardown"
    /\ server.dtor = "cleared"
    /\ server' = [server EXCEPT !.dtor = "done"]
    /\ ServerUnchanged

DtorNext ==
    \/ DtorUpgradeHandler
    \/ \E id \in SessionIds : DtorUserSendClose(id)
    \/ DtorWebSocketLoop
    \/ DtorStop
    \/ DtorJoin
    \/ \E id \in SessionIds : DtorCloseConnection(id)
    \/ DtorClear
    \/ DtorStopDaemon

DtorSpec == DtorInit /\ [][DtorNext]_vars

\* --------------------------------------------- Server::Private::Private

\* The arguments of a construction: the Config, whether a RequestHandler
\* and a ws::Handler are given.
Configs == [port : {0, 1, 65535, 65536}, maxSocketBytesToReceive : {0, 1024}]

\* The constructor as it runs: its member initialisers (sanityCheck, then
\* MHD_start_daemon), its body, and the unwinding when the body throws.
\*   at: "sanityCheck", "startDaemon", "requestHandler", "thread", "mhd",
\*       "unwind", "done"
\*   mhd: "unset", "started" or "null"
\*   outcome: "none", "constructed", "runtime_error" (the exception leaves
\*       the constructor) or "terminate" (std::terminate is called)
CtorInit ==
    /\ InitSession /\ sm = SmIdle
    /\ receivers = ReceiversIdle /\ webSocketHandler = HandlerIdle
    /\ http = HttpIdle /\ senders = SendersIdle
    /\ \E config \in Configs, rh \in BOOLEAN, wsh \in BOOLEAN :
         server = [pc |-> "ctor", at |-> "sanityCheck", config |-> config,
                   requestHandler |-> rh, webSocketHandler |-> wsh,
                   mhd |-> "unset", threadJoinable |-> FALSE,
                   outcome |-> "none"]

\* config{ sanityCheck( std::move( config ) ) }: throws before any member
\* is constructed.
SanityCheck ==
    /\ server.pc = "ctor" /\ server.at = "sanityCheck"
    /\ IF \/ server.config.port < 1 \/ server.config.port > 65535
          \/ server.config.maxSocketBytesToReceive = 0
       THEN server' = [server EXCEPT !.at = "done", !.outcome = "runtime_error"]
       ELSE server' = [server EXCEPT !.at = "startDaemon"]
    /\ ServerUnchanged

\* mhd{ MHD_start_daemon( ... ) }: the HTTP engine starts, or it fails and
\* returns null.
StartDaemon(started) ==
    /\ server.pc = "ctor" /\ server.at = "startDaemon"
    /\ server' = [server EXCEPT
          !.mhd = IF started THEN "started" ELSE "null",
          !.at = "requestHandler"]
    /\ ServerUnchanged

\* if ( !requestHandler ) throw
CheckRequestHandler ==
    /\ server.pc = "ctor" /\ server.at = "requestHandler"
    /\ server' = [server EXCEPT
          !.at = IF server.requestHandler THEN "thread" ELSE "unwind"]
    /\ ServerUnchanged

\* if ( webSocketHandler ) webSocketThread = std::thread{ webSocketLoop }
StartThread ==
    /\ server.pc = "ctor" /\ server.at = "thread"
    /\ server' = [server EXCEPT
          !.threadJoinable = server.webSocketHandler,
          !.at = "mhd"]
    /\ ServerUnchanged

\* if ( !mhd ) throw
CheckMhd ==
    /\ server.pc = "ctor" /\ server.at = "mhd"
    /\ IF server.mhd = "null"
       THEN server' = [server EXCEPT !.at = "unwind"]
       ELSE server' = [server EXCEPT !.at = "done", !.outcome = "constructed"]
    /\ ServerUnchanged

\* The body threw: the members are destroyed (~Private does not run).
\* Destroying webSocketThread while it is joinable calls std::terminate.
Unwind ==
    /\ server.pc = "ctor" /\ server.at = "unwind"
    /\ server' = [server EXCEPT
          !.at = "done",
          !.outcome = IF server.threadJoinable THEN "terminate" ELSE "runtime_error"]
    /\ ServerUnchanged

CtorNext ==
    \/ SanityCheck
    \/ \E started \in BOOLEAN : StartDaemon(started)
    \/ CheckRequestHandler
    \/ StartThread
    \/ CheckMhd
    \/ Unwind

CtorSpec == CtorInit /\ [][CtorNext]_vars

\* ------------------------------------ one upgrade, from request to reads

\* One upgrade request on the HTTP engine's thread, and the scheduler thread
\* that reads the new session.  The client may have sent its first frame
\* right behind the handshake; the HTTP engine has then read it with the
\* request and hands it to upgradeHandler as extraData.
\*   mhd: where the HTTP engine's thread is: "request", "isHandled" (in the
\*        user's IsHandled), "upgradeHandler", "emplaced",
\*        "connectionEstablished" (in the user's ConnectionEstablished),
\*        "returned"
\*   sched: where the scheduler thread is: "poll", "parse", "receiveData"
\*        (in the user's DataReceiver)
\*   held: the mutexes each thread holds
\*   socket: frames the peer has sent that recv has not read
\*   decoded: frames frameParser.decode has been given, in order
\*   polled: the session's fd has been polled
TextFrame(n, fin) ==
    [opCode |-> Text, fin |-> fin, isMasked |-> TRUE, payload |-> PeerPayload(n)]

UpgradeInit ==
    /\ InitSession /\ sm = SmIdle
    /\ receivers = ReceiversIdle /\ webSocketHandler = HandlerIdle
    /\ http = HttpIdle /\ senders = SendersIdle
    /\ \E extraData \in {<<>>, <<TextFrame(0, TRUE)>>, <<TextFrame(0, FALSE)>>} :
         server = [pc |-> "upgrade", mhd |-> "request", sched |-> "poll",
                   held |-> [mhd |-> {}, sched |-> {}],
                   extraData |-> extraData, socket |-> <<>>, sent |-> 0,
                   webSockets |-> {}, pollFDs |-> {}, polled |-> FALSE,
                   closeHandshake |-> "None", fragmented |-> NoFrag,
                   pending |-> <<>>, decoded |-> <<>>, delivered |-> <<>>,
                   wire |-> <<>>]

\* The peer sends one more frame on the upgraded connection.
PeerSend(fin) ==
    /\ server.pc = "upgrade"
    /\ server.mhd \notin {"request", "isHandled"}
    /\ server.sent < MaxPeerFrames
    /\ server' = [server EXCEPT
          !.socket = Append(@, TextFrame(server.sent + 1, fin)),
          !.sent = @ + 1]
    /\ ServerUnchanged

\* maybeCreateWebSocketResponse calls webSocketHandler->isHandled( url ):
\* Handler::isHandled locks the handler's mutex and calls the user's
\* IsHandled.
CallIsHandled ==
    /\ server.pc = "upgrade" /\ server.mhd = "request"
    /\ server' = [server EXCEPT
          !.mhd = "isHandled",
          !.held.mhd = @ \cup {"Handler::mutex"}]
    /\ ServerUnchanged

\* IsHandled returns true; the 101 response is queued and the HTTP engine
\* calls upgradeHandler.
ReturnIsHandled ==
    /\ server.pc = "upgrade" /\ server.mhd = "isHandled"
    /\ server' = [server EXCEPT
          !.mhd = "upgradeHandler",
          !.held.mhd = @ \ {"Handler::mutex"}]
    /\ ServerUnchanged

\* upgradeHandler: takes the id, locks webSocketMutex (a scoped_lock that
\* lasts to the end of the function) and emplaces the WebSocket.
LockAndEmplace ==
    /\ server.pc = "upgrade" /\ server.mhd = "upgradeHandler"
    /\ server' = [server EXCEPT
          !.mhd = "emplaced",
          !.held.mhd = @ \cup {"webSocketMutex"},
          !.webSockets = @ \cup {ConnID}]
    /\ ServerUnchanged

\* upgradeHandler calls webSocketHandler->connectionEstablised( ... ):
\* Handler::connectionEstablised locks the handler's mutex and calls the
\* user's ConnectionEstablished.
CallConnectionEstablished ==
    /\ server.pc = "upgrade" /\ server.mhd = "emplaced"
    /\ server' = [server EXCEPT
          !.mhd = "connectionEstablished",
          !.held.mhd = @ \cup {"Handler::mutex"}]
    /\ ServerUnchanged

\* ConnectionEstablished returns the Receivers; upgradeHandler stores them,
\* does nothing with extraData (the body of "if ( extraDataSize > 0 )" is
\* a comment), adds the socket to the poller and returns.
StoreReceiversAndAdd ==
    /\ server.pc = "upgrade" /\ server.mhd = "connectionEstablished"
    /\ server' = [server EXCEPT
          !.mhd = "returned",
          !.held.mhd = {},
          !.pollFDs = @ \cup {ConnID}]
    /\ ServerUnchanged

\* webSocketLoop: a poll that finds the session's fd readable, and
\* WebSocket::receive reading what the socket holds (at most MaxBatch
\* frames) and decoding it; or a poll that times out.
UpgradePoll ==
    /\ server.pc = "upgrade" /\ server.sched = "poll"
    /\ ConnID \in server.pollFDs
    /\ LET n == IF Len(server.socket) < MaxBatch THEN Len(server.socket) ELSE MaxBatch
           read == SubSeq(server.socket, 1, n)
       IN server' = [server EXCEPT
            !.polled = TRUE,
            !.socket = SubSeq(@, n + 1, Len(@)),
            !.decoded = @ \o read,
            !.pending = read,
            !.sched = IF n > 0 THEN "parse" ELSE "poll"]
    /\ ServerUnchanged

\* The session after parseFrame has handled the frame at the head of
\* pending with outcome o: its fields, what it wrote, and where the
\* scheduler thread goes (a false return takes the fd out of the poller).
AfterFrame(o) ==
    [server EXCEPT
       !.closeHandshake = o.closeHandshake,
       !.fragmented = o.fragmented,
       !.wire = @ \o o.out,
       !.delivered = @ \o o.data,
       !.held.sched = {},
       !.pending = IF o.ret THEN Tail(@) ELSE <<>>,
       !.pollFDs = IF o.ret THEN @ ELSE @ \ {ConnID},
       !.sched = IF o.ret /\ Tail(server.pending) # <<>> THEN "parse" ELSE "poll"]

\* parseFrame comes to a frame.  When its handling delivers data,
\* Receivers::Impl::receiveData locks the Impl's mutex and calls the user's
\* DataReceiver; a frame that begins a fragmented message, or a Text frame
\* inside one, is handled without a call to user code.
UpgradeParse ==
    /\ server.pc = "upgrade" /\ server.sched = "parse"
    /\ server.pending # <<>>
    /\ LET o == ParseOne(server.closeHandshake, server.fragmented,
                         Head(server.pending))
       IN IF o.data # <<>>
          THEN server' = [server EXCEPT
                 !.sched = "receiveData",
                 !.held.sched = @ \cup {"Receivers::Impl::mutex"}]
          ELSE server' = AfterFrame(o)
    /\ ServerUnchanged

\* The DataReceiver returns.
UpgradeReceiveReturn ==
    /\ server.pc = "upgrade" /\ server.sched = "receiveData"
    /\ server' = AfterFrame(ParseOne(server.closeHandshake, server.fragmented,
                                     Head(server.pending)))
    /\ ServerUnchanged

UpgradeNext ==
    \/ \E fin \in BOOLEAN : PeerSend(fin)
    \/ CallIsHandled
    \/ ReturnIsHandled
    \/ LockAndEmplace
    \/ CallConnectionEstablished
    \/ StoreReceiversAndAdd
    \/ UpgradePoll
    \/ UpgradeParse
    \/ UpgradeReceiveReturn

UpgradeSpec == UpgradeInit /\ [][UpgradeNext]_vars

\* ------------------------------------- user threads on one Senders handle

\* Two user threads call the handle given to ConnectionEstablished, or
\* copies of it: all copies share one Senders::Impl and so one mutex.
\*   mutex: 0 when free, else the thread that holds the Impl's mutex
\*   registered / closed: the session is in webSockets / its id is in
\*        closedWebSockets
\*   thread[t]: pc "idle", "locked" (holds the mutex, about to call the
\*        closure), "writing" (inside the session method, sendFrame calls
\*        left in todo), "unlock" (the method has returned)
\*   wire: the frames written, each with the thread and call it came from
UserThreads == {1, 2}

SendersUnchanged ==
    UNCHANGED <<sessionVars, sm, receivers, webSocketHandler, http, server>>

ThreadIdle ==
    [pc |-> "idle", c |-> [op |-> "none"], call |-> 0, todo |-> <<>>,
     callback |-> FALSE, result |-> "none"]

SendersInit ==
    /\ InitSession /\ sm = SmIdle
    /\ receivers = ReceiversIdle /\ webSocketHandler = HandlerIdle
    /\ http = HttpIdle /\ server = ServerIdle
    /\ senders = [pc |-> "serial", mutex |-> 0, closeHandshake |-> "None",
                  registered |-> TRUE, closed |-> FALSE,
                  thread |-> [t \in UserThreads |-> ThreadIdle],
                  wire |-> <<>>, nCalls |-> 0]

\* Senders::Impl::send*: the scoped_lock, taken without the mutex being
\* free.
SendersLockNoMutex(t, c) ==
    /\ senders.pc = "serial"
    /\ senders.thread[t].pc = "idle"
    /\ senders.nCalls < MaxSenderCalls
    /\ senders' = [senders EXCEPT
          !.mutex = t,
          !.nCalls = @ + 1,
          !.thread[t] = [ThreadIdle EXCEPT
                           !.pc = "locked", !.c = c, !.call = senders.nCalls + 1]]
    /\ SendersUnchanged

\* Senders::sendData / sendClose / sendPing / sendPong with d set, up to
\* Senders::Impl::send*: std::scoped_lock l{ mutex }.
SendersLock(t, c) ==
    /\ senders.pc = "serial"
    /\ senders.thread[t].pc = "idle"
    /\ senders.nCalls < MaxSenderCalls
    /\ senders.mutex = 0
    /\ senders' = [senders EXCEPT
          !.mutex = t,
          !.nCalls = @ + 1,
          !.thread[t] = [ThreadIdle EXCEPT
                           !.pc = "locked", !.c = c, !.call = senders.nCalls + 1]]
    /\ SendersUnchanged

\* The closure is set (nothing closes this Impl) and is called: the session
\* method runs up to its first sendFrame.  On an erased session the call
\* runs on a destroyed object and returns whatever it finds there.
SendersInvoke(t) ==
    /\ senders.pc = "serial"
    /\ senders.thread[t].pc = "locked"
    /\ IF ~senders.registered
       THEN \E r \in DanglingResults :
              senders' = [senders EXCEPT
                 !.thread[t].pc = "unlock", !.thread[t].result = r]
       ELSE LET o == SenderOp(senders.closeHandshake, senders.thread[t].c)
            IN senders' = [senders EXCEPT
                 !.closeHandshake = o.closeHandshake,
                 !.thread[t].todo = o.frames,
                 !.thread[t].callback = o.callback,
                 !.thread[t].result = o.result,
                 !.thread[t].pc = IF o.frames = <<>> THEN "unlock" ELSE "writing"]
    /\ SendersUnchanged

\* The next sendFrame of the call; after the last one sendClose invokes
\* closeCallback and the method returns.
SendersWriteFrame(t) ==
    /\ senders.pc = "serial"
    /\ senders.thread[t].pc = "writing"
    /\ IF ~senders.registered
       THEN senders' = [senders EXCEPT
              !.thread[t].pc = "unlock", !.thread[t].todo = <<>>]
       ELSE LET isLast == Len(senders.thread[t].todo) = 1
            IN senders' = [senders EXCEPT
                 !.wire = Append(@, [frame |-> Head(senders.thread[t].todo),
                                     thread |-> t,
                                     call |-> senders.thread[t].call]),
                 !.thread[t].todo = Tail(@),
                 !.thread[t].pc = IF isLast THEN "unlock" ELSE "writing",
                 !.closed = @ \/ (isLast /\ senders.thread[t].callback)]
    /\ SendersUnchanged

\* Senders::Impl::send* returns: the scoped_lock is released.
SendersUnlock(t) ==
    /\ senders.pc = "serial"
    /\ senders.thread[t].pc = "unlock"
    /\ senders' = [senders EXCEPT
          !.mutex = IF @ = t THEN 0 ELSE @,
          !.thread[t].pc = "idle"]
    /\ SendersUnchanged

\* webSocketLoop erases the session named by the close callback.
SendersReap ==
    /\ senders.pc = "serial"
    /\ senders.closed /\ senders.registered
    /\ senders' = [senders EXCEPT !.registered = FALSE, !.closed = FALSE]
    /\ SendersUnchanged

SendersNext ==
    \/ \E t \in UserThreads, c \in CallInputs : SendersLock(t, c)
    \/ \E t \in UserThreads :
          SendersInvoke(t) \/ SendersWriteFrame(t) \/ SendersUnlock(t)
    \/ SendersReap

SendersSpec == SendersInit /\ [][SendersNext]_vars

\* ------------------------------------------------ WebSocket::sendFrame

\* sendFrame at the level of bytes, with the two threads that call it on
\* one session: a user thread through the Senders handle (it holds that
\* handle's mutex) and the scheduler thread from parseFrame (Pong reply,
\* Close echo, closeConnection), which calls sendFrame directly.  sendFrame
\* takes no lock; WebSocket::mutex is never locked.
\*   writer[t]: pc "idle" or "sending" (inside sendFrame), the frame being
\*        written, numBytesToSend, numBytesRemaningToBeSent and the number
\*        of ::send calls made
\*   wire: the bytes on the socket, each with its frame and its offset
Writers == {"user", "sched"}

WriterIdle ==
    [pc |-> "idle", frame |-> 0, numBytesToSend |-> 0,
     numBytesRemaningToBeSent |-> 0, sends |-> 0, result |-> "none"]

WriteInit ==
    /\ InitSession /\ sm = SmIdle
    /\ receivers = ReceiversIdle /\ webSocketHandler = HandlerIdle
    /\ http = HttpIdle /\ server = ServerIdle
    /\ senders = [pc |-> "frames", writer |-> [t \in Writers |-> WriterIdle],
                  wire |-> <<>>, nFrames |-> 0]

\* sendFrame is entered with a header for a payload of len bytes: the
\* buffer of encodedHeaderSize + payloadSize bytes is filled.
EnterSendFrame(t, len) ==
    /\ senders.pc = "frames"
    /\ senders.writer[t].pc = "idle"
    /\ senders.nFrames < MaxWireFrames
    /\ LET numBytesToSend == EncodedSizeInBytes(len, FALSE) + len
       IN senders' = [senders EXCEPT
            !.nFrames = @ + 1,
            !.writer[t] = [pc |-> "sending", frame |-> senders.nFrames + 1,
                           numBytesToSend |-> numBytesToSend,
                           numBytesRemaningToBeSent |-> numBytesToSend,
                           sends |-> 0, result |-> "none"]]
    /\ SendersUnchanged

\* One pass of the loop whose ::send( socket, sendBuffer.get(),
\* numBytesToSend, flags ) returns numSentBytes > 0: the first numSentBytes
\* bytes of the buffer go on the wire and numBytesRemaningToBeSent goes down
\* by numSentBytes.  It is a size_t: below zero it wraps to a value that is
\* not zero, kept here as the negative number it is congruent to.
SendSome(t, numSentBytes) ==
    /\ senders.pc = "frames"
    /\ senders.writer[t].pc = "sending"
    /\ senders.writer[t].sends < MaxSends
    /\ numSentBytes <= senders.writer[t].numBytesToSend
    /\ LET w == senders.writer[t]
           remaining == w.numBytesRemaningToBeSent - numSentBytes
       IN senders' = [senders EXCEPT
            !.wire = @ \o [i \in 1..numSentBytes |->
                             [writer |-> t, frame |-> w.frame, offset |-> i]],
            !.writer[t].numBytesRemaningToBeSent = remaining,
            !.writer[t].sends = @ + 1,
            !.writer[t].pc = IF remaining = 0 THEN "idle" ELSE "sending",
            !.writer[t].result = IF remaining = 0 THEN "Success" ELSE "none"]
    /\ SendersUnchanged

\* ::send fails with an error other than EAGAIN: sendFrame returns eFailure.
SendFails(t) ==
    /\ senders.pc = "frames"
    /\ senders.writer[t].pc = "sending"
    /\ senders' = [senders EXCEPT
          !.writer[t].pc = "idle", !.writer[t].result = "Failure"]
    /\ SendersUnchanged

WriteNext ==
    \/ \E t \in Writers, len \in 0..MaxWirePayload : EnterSendFrame(t, len)
    \/ \E t \in Writers, n \in 1..(2 + MaxWirePayload) : SendSome(t, n)
    \/ \E t \in Writers : SendFails(t)

WriteSpec == WriteInit /\ [][WriteNext]_vars

\* ------------------------------------------- the closedWebSockets set

\* Several registered sessions, user threads that call sendClose on their
\* handles, and the scheduler thread's pass over closedWebSockets.
\* webSocketClosed inserts without a lock; the pass reads the set without a
\* lock (webSocketMutex guards only the find and erase in webSockets) and
\* then clears it.
\*   sched: "poll", "erase" (in the loop over closedWebSockets), "stopped"
\*   visited: the ids the loop has been at in this pass
\*   late: the ids inserted while the loop ran; the loop may or may not
\*         come to them
\*   called: history, the ids passed to the close callback
DrainInit ==
    /\ InitSession /\ sm = SmIdle
    /\ receivers = ReceiversIdle /\ webSocketHandler = HandlerIdle
    /\ http = HttpIdle /\ senders = SendersIdle
    /\ server = [pc |-> "drain", webSockets |-> SessionIds,
                 closedWebSockets |-> {},
                 closeHandshake |-> [id \in SessionIds |-> "None"],
                 wire |-> [id \in SessionIds |-> <<>>],
                 sched |-> "poll", visited |-> {}, late |-> {}, called |-> {}]

\* User code calls sendClose on the handle of a registered session; past
\* its guard it ends with closeCallback( connectionID ), which is
\* webSocketClosed: closedWebSockets.insert( connectionID ).
DrainUserSendClose(id) ==
    /\ server.pc = "drain"
    /\ id \in server.webSockets
    /\ LET c == SendClose(server.closeHandshake[id], GoingAway, <<>>)
       IN server' = [server EXCEPT
            !.closeHandshake[id] = c.closeHandshake,
            !.wire[id] = @ \o Written(c.frames, "user"),
            !.closedWebSockets = IF c.callback THEN @ \cup {id} ELSE @,
            !.called = IF c.callback THEN @ \cup {id} ELSE @,
            !.late = IF c.callback /\ server.sched = "erase"
                     THEN @ \cup {id} ELSE @]
    /\ ServerUnchanged

\* webSocketLoop: the poll has returned and the loop over closedWebSockets
\* begins.
DrainBegin ==
    /\ server.pc = "drain"
    /\ server.sched = "poll"
    /\ server' = [server EXCEPT !.sched = "erase", !.visited = {}, !.late = {}]
    /\ ServerUnchanged

\* One iteration: under webSocketMutex, find the id in webSockets and erase
\* it; an unknown id makes the thread return.
DrainErase(id) ==
    /\ server.pc = "drain"
    /\ server.sched = "erase"
    /\ id \in server.closedWebSockets \ server.visited
    /\ IF id \in server.webSockets
       THEN server' = [server EXCEPT
              !.webSockets = @ \ {id},
              !.visited = @ \cup {id}]
       ELSE server' = [server EXCEPT !.sched = "stopped"]
    /\ ServerUnchanged

\* The loop ends, having been at every id that was in the set when it
\* began, and closedWebSockets.clear() runs.
DrainClear ==
    /\ server.pc = "drain"
    /\ server.sched = "erase"
    /\ (server.closedWebSockets \ server.visited) \subseteq server.late
    /\ server' = [server EXCEPT !.closedWebSockets = {}, !.sched = "poll"]
    /\ ServerUnchanged

DrainNext ==
    \/ \E id \in SessionIds : DrainUserSendClose(id)
    \/ DrainBegin
    \/ \E id \in SessionIds : DrainErase(id)
    \/ DrainClear

DrainSpec == DrainInit /\ [][DrainNext]_vars

\* ------------------------------------------------ Sec-WebSocket-Accept

\* maybeCreateWebSocketResponse derives the Sec-WebSocket-Accept header:
\* the request's Sec-WebSocket-Key, the GUID appended, encoding::sha1::encode
\* of that, encoding::base64::encode of the digest.  Strings are sequences
\* of characters here.  sha1 and base64 are liblbEncoding's; they are
\* taken to be SHA-1 (FIPS 180-4) giving the 20 digest bytes and base64
\* (RFC 4648) with padding.

\* The base64 alphabet, which also holds every letter and digit of the keys.
Base64Alphabet ==
    <<"A", "B", "C", "D", "E", "F", "G", "H", "I", "J", "K", "L", "M", "N",
      "O", "P", "Q", "R", "S", "T", "U", "V", "W", "X", "Y", "Z", "a", "b",
      "c", "d", "e", "f", "g", "h", "i", "j", "k", "l", "m", "n", "o", "p",
      "q", "r", "s", "t", "u", "v", "w", "x", "y", "z", "0", "1", "2", "3",
      "4", "5", "6", "7", "8", "9", "+", "/">>

\* "258EAFA5-E914-47DA-95CA-C5AB0DC85B11"
WebSocketGuid ==
    <<"2", "5", "8", "E", "A", "F", "A", "5", "-", "E", "9", "1", "4", "-",
      "4", "7", "D", "A", "-", "9", "5", "C", "A", "-", "C", "5", "A", "B",
      "0", "D", "C", "8", "5", "B", "1", "1">>

\* The key of RFC 6455 1.3, "dGhlIHNhbXBsZSBub25jZQ==", and the key in the
\* comment of maybeCreateWebSocketResponse, "ZHEJMUkToewFjjdufVsStQ==".
SampleKey ==
    <<"d", "G", "h", "l", "I", "H", "N", "h", "b", "X", "B", "s", "Z", "S",
      "B", "u", "b", "2", "5", "j", "Z", "Q", "=", "=">>

CommentKey ==
    <<"Z", "H", "E", "J", "M", "U", "k", "T", "o", "e", "w", "F", "j", "j",
      "d", "u", "f", "V", "s", "S", "t", "Q", "=", "=">>

AcceptKeys == {SampleKey, CommentKey}

\* The byte a character of a std::string is.
AsciiOf(ch) ==
    CASE ch = "-" -> 45
      [] ch = "=" -> 61
      [] ch = "+" -> 43
      [] ch = "/" -> 47
      [] OTHER ->
           LET i == CHOOSE i \in 1..64 : Base64Alphabet[i] = ch
           IN IF i <= 26 THEN 64 + i
              ELSE IF i <= 52 THEN 70 + i
              ELSE i - 5

\* A number as width bits, most significant first, and back.
Bits(n, width) == [i \in 1..width |-> (n \div 2^(width - i)) % 2]

RECURSIVE Val(_)
Val(bits) ==
    IF bits = <<>> THEN 0
    ELSE 2 * Val(SubSeq(bits, 1, Len(bits) - 1)) + bits[Len(bits)]

\* 32-bit words as sequences of 32 bits.
Word(hi, lo) == Bits(hi, 16) \o Bits(lo, 16)
Xor(a, b) == [i \in 1..32 |-> (a[i] + b[i]) % 2]
And(a, b) == [i \in 1..32 |-> a[i] * b[i]]
Or(a, b) == [i \in 1..32 |-> IF a[i] + b[i] > 0 THEN 1 ELSE 0]
Not(a) == [i \in 1..32 |-> 1 - a[i]]
Rotl(a, n) == [i \in 1..32 |-> a[((i - 1 + n) % 32) + 1]]

\* Addition modulo 2^32, by 16-bit halves.
Add(a, b) ==
    LET lo == Val(SubSeq(a, 17, 32)) + Val(SubSeq(b, 17, 32))
        hi == Val(SubSeq(a, 1, 16)) + Val(SubSeq(b, 1, 16)) + lo \div 65536
    IN Word(hi % 65536, lo % 65536)

\* SHA-1 padding of a message shorter than 8192 bytes: 0x80, zeros up to 56
\* modulo 64, the length in bits as 8 bytes.
Sha1Pad(bytes) ==
    LET zeros == (64 - ((Len(bytes) + 9) % 64)) % 64
    IN bytes \o <<128>> \o [i \in 1..zeros |-> 0]
       \o <<0, 0, 0, 0, 0, 0, (8 * Len(bytes)) \div 256, (8 * Len(bytes)) % 256>>

\* Word t (0..15) of block number block (1..) of the padded message.
BlockWord(padded, block, t) ==
    LET at == 64 * (block - 1) + 4 * t
    IN Bits(padded[at + 1], 8) \o Bits(padded[at + 2], 8)
       \o Bits(padded[at + 3], 8) \o Bits(padded[at + 4], 8)

\* Word t of the message schedule, given the words w before it.
Sha1Schedule(w, padded, block, t) ==
    IF t < 16 THEN BlockWord(padded, block, t)
    ELSE Rotl(Xor(Xor(w[t - 2], w[t - 7]), Xor(w[t - 13], w[t - 15])), 1)

Sha1F(t, b, c, d) ==
    IF t < 20 THEN Or(And(b, c), And(Not(b), d))
    ELSE IF t < 40 THEN Xor(Xor(b, c), d)
    ELSE IF t < 60 THEN Or(Or(And(b, c), And(b, d)), And(c, d))
    ELSE Xor(Xor(b, c), d)

Sha1K(t) ==
    IF t < 20 THEN Word(23170, 31129)
    ELSE IF t < 40 THEN Word(28377, 60321)
    ELSE IF t < 60 THEN Word(36635, 48348)
    ELSE Word(51810, 49622)

Sha1H0 ==
    <<Word(26437, 8961), Word(61389, 43913), Word(39098, 56574),
      Word(4146, 21622), Word(50130, 57840)>>

\* One round: the working variables <<a, b, c, d, e>> after round t.
Sha1Round(v, t, wt) ==
    LET temp == Add(Add(Add(Add(Rotl(v[1], 5), Sha1F(t, v[2], v[3], v[4])),
                            v[5]), Sha1K(t)), wt)
    IN <<temp, v[1], Rotl(v[2], 30), v[3], v[4]>>

\* The 20 bytes of a digest of five words.
DigestBytes(h) ==
    [i \in 1..20 |-> Val(SubSeq(h[((i - 1) \div 4) + 1],
                                8 * ((i - 1) % 4) + 1, 8 * ((i - 1) % 4) + 8))]

\* base64 with padding.
RECURSIVE BitsOf(_)
BitsOf(bytes) ==
    IF bytes = <<>> THEN <<>> ELSE Bits(Head(bytes), 8) \o BitsOf(Tail(bytes))

Base64Encode(bytes) ==
    LET bits == BitsOf(bytes)
        fill == (6 - (Len(bits) % 6)) % 6
        all == bits \o [i \in 1..fill |-> 0]
        sextets == [i \in 1..(Len(all) \div 6) |->
                      Base64Alphabet[Val(SubSeq(all, 6 * i - 5, 6 * i)) + 1]]
    IN sextets \o [i \in 1..((3 - (Len(bytes) % 3)) % 3) |-> "="]

\* acceptResponse{ headers[ Sec-WebSocket-Key ] }; acceptResponse.append( GUID ),
\* with the GUID put in front instead.
AcceptResponseInputGuidFirst(secWebSocketKey) == WebSocketGuid \o secWebSocketKey

\* acceptResponse{ headers[ Sec-WebSocket-Key ] }; acceptResponse.append( GUID )
AcceptResponseInput(secWebSocketKey) == secWebSocketKey \o WebSocketGuid

\* The derivation as it runs for a request with the given key:
\*   at: "append", "sha1", "rounds", "base64", "header", "done"
AcceptInit ==
    /\ InitSession /\ sm = SmIdle
    /\ receivers = ReceiversIdle /\ webSocketHandler = HandlerIdle
    /\ server = ServerIdle /\ senders = SendersIdle
    /\ \E key \in AcceptKeys :
         http = [pc |-> "accept", at |-> "append", key |-> key,
                 input |-> <<>>, padded |-> <<>>, block |-> 0, t |-> 0,
                 h |-> Sha1H0, v |-> Sha1H0, w |-> <<>>, digest |-> <<>>,
                 acceptResponse |-> <<>>, header |-> <<>>]

AcceptUnchanged ==
    UNCHANGED <<sessionVars, sm, receivers, webSocketHandler, server, senders>>

\* The key is read from headers and the GUID appended.
AppendGuid ==
    /\ http.pc = "accept" /\ http.at = "append"
    /\ http' = [http EXCEPT
          !.input = AcceptResponseInput(http.key), !.at = "sha1"]
    /\ AcceptUnchanged

\* sha1::encode begins: the bytes are padded and the first block is taken.
Sha1Begin ==
    /\ http.pc = "accept" /\ http.at = "sha1"
    /\ http' = [http EXCEPT
          !.padded = Sha1Pad([i \in 1..Len(http.input) |-> AsciiOf(http.input[i])]),
          !.block = 1, !.t = 0, !.h = Sha1H0, !.v = Sha1H0, !.w = <<>>,
          !.at = "rounds"]
    /\ AcceptUnchanged

\* One of the 80 rounds of the current block.
Sha1Step ==
    /\ http.pc = "accept" /\ http.at = "rounds"
    /\ http.t < 80
    /\ LET wt == Sha1Schedule(http.w, http.padded, http.block, http.t)
       IN http' = [http EXCEPT
            !.v = Sha1Round(http.v, http.t, wt),
            !.w = Append(@, wt),
            !.t = @ + 1]
    /\ AcceptUnchanged

\* The block is done: the working variables are added to the hash; the
\* next block follows, or the digest is complete.
Sha1EndBlock ==
    /\ http.pc = "accept" /\ http.at = "rounds"
    /\ http.t = 80
    /\ LET h == [i \in 1..5 |-> Add(http.h[i], http.v[i])]
       IN IF 64 * http.block < Len(http.padded)
          THEN http' = [http EXCEPT
                 !.h = h, !.v = h, !.w = <<>>, !.t = 0, !.block = @ + 1]
          ELSE http' = [http EXCEPT
                 !.h = h, !.digest = DigestBytes(h), !.at = "base64"]
    /\ AcceptUnchanged

\* acceptResponse = encoding::base64::encode( acceptResponse )
EncodeDigest ==
    /\ http.pc = "accept" /\ http.at = "base64"
    /\ http' = [http EXCEPT
          !.acceptResponse = Base64Encode(http.digest), !.at = "header"]
    /\ AcceptUnchanged

\* MHD_add_response_header( mhdResponse, Sec-WebSocket-Accept, ... )
AddAcceptHeader ==
    /\ http.pc = "accept" /\ http.at = "header"
    /\ http' = [http EXCEPT !.header = http.acceptResponse, !.at = "done"]
    /\ AcceptUnchanged

AcceptNext ==
    \/ AppendGuid
    \/ Sha1Begin
    \/ Sha1Step
    \/ Sha1EndBlock
    \/ EncodeDigest
    \/ AddAcceptHeader

AcceptSpec == AcceptInit /\ [][AcceptNext]_vars

\* ------------------------------- a send from inside the ControlReceiver

\* One iteration of parseFrame's loop on a masked Close frame f whose
\* receiveControl( eClose ) callback, run by the scheduler thread before the
\* switch on closeHandshake, calls c on the Senders handle user code holds.
\* The call runs to its return inside the callback; the switch, the echo,
\* Senders::Impl::close( senders ) and closeCallback come after it.
ParseFrameCalling(f, c) ==
    /\ schedPc = "parse" /\ pending > 0
    /\ f.isMasked /\ f.opCode = ConnectionClose
    /\ call.pc = "idle"
    /\ LET s == IF sendersOpen.user
                THEN SenderOp(closeHandshake, c)
                ELSE Refused(closeHandshake)
           o == ParseOne(s.closeHandshake, fragmented, f)
       IN /\ call' = [NoCall EXCEPT !.pc = "done", !.op = c.op,
                                    !.result = s.result, !.callback = s.callback,
                                    !.chAtCall = closeHandshake,
                                    !.written = Len(s.frames)]
          /\ closeHandshake' = o.closeHandshake
          /\ fragmented' = o.fragmented
          /\ wire' = wire \o Written(s.frames, "callback") \o o.out
          /\ delivered' = delivered \o o.data
          /\ controls' = controls \o o.control
          /\ sendersOpen' = IF o.closeSenders
                            THEN [sendersOpen EXCEPT !.own = FALSE]
                            ELSE sendersOpen
          /\ closedWebSockets' = IF s.callback \/ o.callback
                                 THEN closedWebSockets \cup {ConnID}
                                 ELSE closedWebSockets
          /\ pending' = 0
          /\ schedPc' = "reap"
          /\ pollFDs' = IF o.ret THEN pollFDs ELSE pollFDs \ {ConnID}
          /\ peerMsg' = PeerMsgAfter(peerMsg, f)
          /\ expected' = expected \o Completed(peerMsg, f)
    /\ nFrames' = nFrames + 1
    /\ nCalls' = nCalls + 1
    /\ clock' = IF sendersOpen.user THEN ClockAfterSend(closeHandshake, c) ELSE clock
    /\ UNCHANGED <<webSockets, running, sm, standaloneVars>>

\* The scheduler thread with a ControlReceiver that may answer a peer Close
\* by a call on its Senders handle; user code makes no other call.
CallbackNext ==
    \/ \E n \in 1..MaxBatch : PollReady(n, MaxPeerFrames)
    \/ \E f \in PeerFrames(nFrames + 1) : ParseFrame(f)
    \/ \E f \in PeerFrames(nFrames + 1), c \in CallInputs : ParseFrameCalling(f, c)
    \/ Reap
    \/ Teardown

CallbackSpec == Init /\ [][CallbackNext]_vars

\* ------------------------------------------- sendMessage as a function

CloseStates == {"None", "ServerInitiated", "ClientInitiated", "Complete"}

\* The message of n bytes user code passes to sendData.
Message(n) == [i \in 1..n |-> i % 256]

\* Message lengths: the short ones and those around the steps of the
\* header size (125/126 and 65535/65536).
SendLens == (0..MaxSendLen) \cup {125, 126, 127} \cup {65535, 65536}

\* maxFrameSize values: 0 (unlimited), the small ones, those around the
\* header-size steps, and some that split the long messages in a few frames.
SendMaxFrameSizes ==
    (0..MaxFrameSizeSmall) \cup {64, 127, 128, 129, 130} \cup {40000, 65545, 65546}

\* The inputs of SendSpec: every close state, and the (length, maxFrameSize)
\* pairs whose loop ends within MaxSendFrames iterations.
SendInputs ==
    { in \in [closeHandshake : CloseStates, n : SendLens, maxFrameSize : SendMaxFrameSizes] :
        LET hdr == EncodedSizeInBytes(in.n, FALSE)
        IN \/ in.maxFrameSize <= hdr
           \/ in.n \div (in.maxFrameSize - hdr) <= MaxSendFrames }

SendInit ==
    /\ InitSession /\ InitStandalone
    /\ \E in \in SendInputs :
         sm = [pc |-> "called", closeHandshake |-> in.closeHandshake, n |-> in.n,
               maxFrameSize |-> in.maxFrameSize]

\* sendMessage( Message(n), maxFrameSize ) runs to its return.
SmReturn ==
    /\ sm.pc = "called"
    /\ LET r == SendMessage(sm.closeHandshake, Message(sm.n), sm.maxFrameSize)
       IN sm' = [pc |-> "returned", closeHandshake |-> sm.closeHandshake,
                 n |-> sm.n, maxFrameSize |-> sm.maxFrameSize,
                 result |-> r.result, frames |-> r.frames]
    /\ UNCHANGED <<sessionVars, standaloneVars>>

SendNext == SmReturn

SendSpec == SendInit /\ [][SendNext]_vars

\* ------------------------------------ the control sends as functions

\* The functions of the session that write a control frame of their own.
CtlOps == {"sendClose", "sendPing", "sendPong", "closeConnection"}

\* Lengths of the payload (Ping, Pong) or reason (Close) the caller passes.
CtlLens == (0..MaxCtlLen) \cup {123, 124, 125, 126}

CtlInputs == [closeHandshake : CloseStates, op : CtlOps, n : CtlLens]

CtlInit ==
    /\ InitSession /\ InitStandalone
    /\ \E in \in CtlInputs :
         sm = [pc |-> "ctlCalled", closeHandshake |-> in.closeHandshake,
               op |-> in.op, n |-> in.n]

\* The control send runs to its return with Message(n) as its payload or
\* reason.
CtlReturn ==
    /\ sm.pc = "ctlCalled"
    /\ LET o == IF sm.op = "closeConnection"
                THEN CloseConnection(sm.closeHandshake, ProtocolError, Message(sm.n))
                ELSE SenderOp(sm.closeHandshake,
                              [op |-> sm.op, payload |-> Message(sm.n),
                               maxFrameSize |-> 0, code |-> GoingAway])
       IN sm' = [pc |-> "ctlReturned", closeHandshake |-> sm.closeHandshake,
                 op |-> sm.op, n |-> sm.n, result |-> o.result,
                 frames |-> o.frames]
    /\ UNCHANGED <<sessionVars, standaloneVars>>

CtlNext == CtlReturn

CtlSpec == CtlInit /\ [][CtlNext]_vars

\* ------------------------------------------------------------------ Poller

\* One Poller, the threads that call add and remove on it, and the thread
\* that runs its function operator.  A callback is named by a number, 0 is
\* the empty std::function; a free slot has fd -1.
\*   pollFDs, pollCallbacks: the two vectors, slot i of the code at i + 1
\*   nextAvailable: as in the code, counted from 0
\*   pendingAdds: the unordered_map, as a set of [fd, callback] with one
\*                entry for an fd
\*   pendingRemovals: the vector
\*   step: where the polling thread is: "removals" (about to run
\*         processPendingRemovals), "adds", "poll"
\*   history: registered (the [fd, callback] an applied add put in and no
\*   applied removal took out), requeued (the [fd, callback] of an add made
\*   after a remove of the same fd, both before the cycle began), removed
\*   (fds of the removes made before the cycle began), retired (fds whose
\*   callback returned false and that add has not been called for since),
\*   retiredBefore and dispatched (retired as the last cycle began to
\*   dispatch, and the fds whose callback it invoked)
Fds == 1..MaxFds
Callbacks == 1..MaxCallbacks

PollerInit ==
    /\ InitSession /\ sm = SmIdle
    /\ receivers = ReceiversIdle /\ webSocketHandler = HandlerIdle
    /\ http = HttpIdle /\ senders = SendersIdle
    /\ server = [pc |-> "poller", pollFDs |-> <<>>, pollCallbacks |-> <<>>,
                 nextAvailable |-> 0, pendingAdds |-> {},
                 pendingRemovals |-> <<>>, step |-> "removals",
                 calls |-> 0, cycles |-> 0,
                 registered |-> {}, requeued |-> {}, removed |-> {},
                 retired |-> {}, retiredBefore |-> {}, dispatched |-> {}]

\* Poller::add: pendingAdds.emplace( fd, inCallback ) under
\* pendingAddsMutex; emplace leaves an entry the map already has for fd.
PollerAdd(fd, callback) ==
    /\ server.pc = "poller"
    /\ server.calls < MaxPollerCalls
    /\ LET has == \E a \in server.pendingAdds : a.fd = fd
           new == [fd |-> fd, callback |-> callback]
           first == server.step = "removals" /\ fd \in server.removed
                    /\ ~ \E r \in server.requeued : r.fd = fd
       IN server' = [server EXCEPT
            !.pendingAdds = IF has THEN @ ELSE @ \cup {new},
            !.calls = @ + 1,
            !.requeued = IF first THEN @ \cup {new} ELSE @,
            !.retired = @ \ {fd}]
    /\ ServerUnchanged

\* Poller::remove: pendingRemovals.push_back( fd ) under
\* pendingRemovalsMutex.
PollerRemove(fd) ==
    /\ server.pc = "poller"
    /\ server.calls < MaxPollerCalls
    /\ server' = [server EXCEPT
         !.pendingRemovals = Append(@, fd),
         !.calls = @ + 1,
         !.removed = IF server.step = "removals" THEN @ \cup {fd} ELSE @,
         !.requeued = { r \in @ : r.fd # fd }]
    /\ ServerUnchanged

\* The inner loop of processPendingRemovalsNoLock for one fd: the first
\* slot that holds fd is freed, and nextAvailable comes down to it.
RemoveFd(p, fd) ==
    LET hits == { i \in DOMAIN p.pollFDs : p.pollFDs[i] = fd }
    IN IF hits = {} THEN p
       ELSE LET i == CHOOSE k \in hits : \A j \in hits : k <= j
            IN [pollFDs |-> [p.pollFDs EXCEPT ![i] = -1],
                pollCallbacks |-> [p.pollCallbacks EXCEPT ![i] = 0],
                nextAvailable |-> IF i - 1 < p.nextAvailable
                                  THEN i - 1 ELSE p.nextAvailable]

\* processPendingRemovalsNoLock: the outer loop over pendingRemovals.
RECURSIVE ProcessPendingRemovalsNoLock(_, _)
ProcessPendingRemovalsNoLock(p, pendingRemovals) ==
    IF pendingRemovals = <<>> THEN p
    ELSE ProcessPendingRemovalsNoLock(RemoveFd(p, Head(pendingRemovals)),
                                      Tail(pendingRemovals))

\* do { ++nextAvailable; } while ( nextAvailable < pollFDs.size() &&
\* pollFDs[ nextAvailable ].fd < 0 ), entered with n already incremented.
RECURSIVE AdvanceNextAvailable(_, _)
AdvanceNextAvailable(fds, n) ==
    IF n < Len(fds) /\ fds[n + 1] < 0
    THEN AdvanceNextAvailable(fds, n + 1)
    ELSE n

\* The body of processPendingAdds' loop for one entry.
AddFd(p, a) ==
    LET grow == p.nextAvailable = Len(p.pollFDs)
        fds == IF grow THEN Append(p.pollFDs, -1) ELSE p.pollFDs
        cbs == IF grow THEN Append(p.pollCallbacks, 0) ELSE p.pollCallbacks
        placed == [fds EXCEPT ![p.nextAvailable + 1] = a.fd]
    IN [pollFDs |-> placed,
        pollCallbacks |-> [cbs EXCEPT ![p.nextAvailable + 1] = a.callback],
        nextAvailable |-> AdvanceNextAvailable(placed, p.nextAvailable + 1)]

\* processPendingAdds: the loop over pendingAdds in the order the
\* unordered_map yields its entries.
RECURSIVE ProcessPendingAddsInOrder(_, _)
ProcessPendingAddsInOrder(p, order) ==
    IF order = <<>> THEN p
    ELSE ProcessPendingAddsInOrder(AddFd(p, Head(order)), Tail(order))

\* The orders in which a set can be iterated.
Orders(S) ==
    { o \in [1..Cardinality(S) -> S] : \A i, j \in DOMAIN o : i # j => o[i] # o[j] }

Slots(s) == [pollFDs |-> s.pollFDs, pollCallbacks |-> s.pollCallbacks,
             nextAvailable |-> s.nextAvailable]

\* operator(), first statement: processPendingRemovals().
PollerProcessPendingRemovals ==
    /\ server.pc = "poller"
    /\ server.step = "removals"
    /\ server.cycles < MaxPollerCycles
    /\ LET p == ProcessPendingRemovalsNoLock(Slots(server), server.pendingRemovals)
           gone == { server.pendingRemovals[i] : i \in DOMAIN server.pendingRemovals }
       IN server' = [server EXCEPT
            !.pollFDs = p.pollFDs, !.pollCallbacks = p.pollCallbacks,
            !.nextAvailable = p.nextAvailable,
            !.pendingRemovals = <<>>,
            !.registered = { r \in @ : r.fd \notin gone },
            !.step = "adds", !.cycles = @ + 1]
    /\ ServerUnchanged

\* operator(), second statement: processPendingAdds().
PollerProcessPendingAdds ==
    /\ server.pc = "poller"
    /\ server.step = "adds"
    /\ \E order \in Orders(server.pendingAdds) :
         LET p == ProcessPendingAddsInOrder(Slots(server), order)
             added == { a.fd : a \in server.pendingAdds }
         IN server' = [server EXCEPT
              !.pollFDs = p.pollFDs, !.pollCallbacks = p.pollCallbacks,
              !.nextAvailable = p.nextAvailable,
              !.pendingAdds = {},
              !.registered = { r \in @ : r.fd \notin added }
                             \cup server.pendingAdds,
              !.step = "poll"]
    /\ ServerUnchanged

\* operator(), the rest: poll() reports the fds in ready as readable; the
\* callback of every slot that holds one of them runs and returns
\* result[i]; the fds of those that returned false go to bulkRemoval, which
\* appends them to pendingRemovals and processes the whole vector.  With
\* nothing ready (poll returned 0) bulkRemoval is not called.
PollerPoll(ready, result) ==
    /\ server.pc = "poller"
    /\ server.step = "poll"
    /\ LET hit == { i \in DOMAIN server.pollFDs :
                      server.pollFDs[i] > -1 /\ server.pollFDs[i] \in ready }
           failed == { i \in hit : ~result[i] }
           slots == SelectSeq([i \in DOMAIN server.pollFDs |-> i],
                              LAMBDA i : i \in failed)
           toRemove == [k \in DOMAIN slots |-> server.pollFDs[slots[k]]]
           all == server.pendingRemovals \o toRemove
           p == ProcessPendingRemovalsNoLock(Slots(server), all)
           gone == { all[i] : i \in DOMAIN all }
           pendingFds == { a.fd : a \in server.pendingAdds }
       IN /\ \A i \in DOMAIN server.pollFDs \ hit : result[i]
          /\ IF hit = {}
             THEN server' = [server EXCEPT
                    !.step = "removals", !.requeued = {}, !.removed = {},
                    !.retiredBefore = server.retired, !.dispatched = {}]
             ELSE server' = [server EXCEPT
                    !.pollFDs = p.pollFDs, !.pollCallbacks = p.pollCallbacks,
                    !.nextAvailable = p.nextAvailable,
                    !.pendingRemovals = <<>>,
                    !.registered = { r \in @ : r.fd \notin gone },
                    !.step = "removals", !.requeued = {}, !.removed = {},
                    !.retiredBefore = server.retired,
                    !.dispatched = { server.pollFDs[i] : i \in hit },
                    !.retired = @ \cup ({ server.pollFDs[i] : i \in failed }
                                        \ pendingFds)]
    /\ ServerUnchanged

PollerNext ==
    \/ \E fd \in Fds, callback \in Callbacks : PollerAdd(fd, callback)
    \/ \E fd \in Fds : PollerRemove(fd)
    \/ PollerProcessPendingRemovals
    \/ PollerProcessPendingAdds
    \/ \E ready \in SUBSET Fds :
         \E result \in [DOMAIN server.pollFDs -> BOOLEAN] : PollerPoll(ready, result)

PollerSpec == PollerInit /\ [][PollerNext]_vars

\* ----------------------------------------------- webSocketLoop, sessions

\* The scheduler thread with several registered sessions, the peers, user
\* threads that call sendClose on their handles and the destructor.
\*   webSockets, closedWebSockets, closeHandshake: as in the code
\*   pollFDs: the sessions whose fd is in the Poller's slots; the Server
\*        adds an fd in upgradeHandler and never calls Poller::remove, so
\*        an fd leaves only when its callback returns false
\*   running: webSocketRunning
\*   sched: the scheduler thread: "check" (at while ( webSocketRunning )),
\*        "poll" (inside poller( 500 )), "send" (a callback is inside
\*        sendFrame's ::send), "erase" (in the loop over
\*        closedWebSockets), "exited" (the while ended), "returned" (the
\*        return at the unknown id)
\*   cur: the session and frame of the callback that is inside sendFrame
\*   room: frames the send buffer of each socket still takes; the
\*        sockets are blocking, ::send returns when the buffer took the
\*        frame
\*   user: where the user thread of each handle is: "idle", "callback"
\*        (inside sendClose, sendFrame done, closeCallback not yet
\*        called), "done"
\*   dtor: ~Private: "idle", "joining" (running = false has been stored),
\*        "joined"
\*   history: zeroRead (sessions whose recv returned 0), negativeRead
\*   (sessions whose last recv returned a negative value), visited (ids
\*   the loop over closedWebSockets has been at in this pass), stale
\*   (sessions whose read callback ran after they were destroyed), events
LoopIds == 0..(MaxLoopSessions - 1)
LoopEvents == {"data", "ping", "close", "unmasked", "recvNegative", "recvZero"}

\* No callback is inside sendFrame.
NoCur == [id |-> 0, ev |-> "none", callback |-> FALSE, ret |-> TRUE]

LoopInit ==
    /\ InitSession /\ sm = SmIdle
    /\ receivers = ReceiversIdle /\ webSocketHandler = HandlerIdle
    /\ http = HttpIdle /\ senders = SendersIdle
    /\ server = [pc |-> "loop", webSockets |-> LoopIds, closedWebSockets |-> {},
                 pollFDs |-> LoopIds,
                 closeHandshake |-> [id \in LoopIds |-> "None"],
                 running |-> TRUE, sched |-> "check",
                 cur |-> NoCur,
                 room |-> [id \in LoopIds |-> SendBufferFrames],
                 user |-> [id \in LoopIds |-> "idle"],
                 dtor |-> "idle",
                 zeroRead |-> {}, negativeRead |-> {}, visited |-> {},
                 stale |-> {}, events |-> 0]

\* while ( webSocketRunning ): the loop goes into poller( 500 ) or ends.
LoopCheck ==
    /\ server.pc = "loop"
    /\ server.sched = "check"
    /\ server' = [server EXCEPT !.sched = IF server.running THEN "poll" ELSE "exited"]
    /\ ServerUnchanged

\* poller( 500 ) returns 0 (timeout) and the loop over closedWebSockets
\* begins, or returns a negative value: the thread sleeps and continues.
LoopPollIdle(pollResult) ==
    /\ server.pc = "loop"
    /\ server.sched = "poll"
    /\ server' = [server EXCEPT
         !.sched = IF pollResult < 0 THEN "check" ELSE "erase",
         !.visited = {}]
    /\ ServerUnchanged

\* What parseFrame and receive do for event ev on session id once any
\* frame they write has been sent: the new close state, whether
\* closeCallback is invoked, and what receive returns.
LoopOutcome(ch, ev) ==
    CASE ev = "close" ->
           [closeHandshake |-> IF ch = "None" THEN "ClientInitiated"
                               ELSE IF ch = "ServerInitiated" THEN "Complete"
                               ELSE ch,
            callback |-> TRUE, ret |-> FALSE]
      [] ev = "unmasked" ->
           [closeHandshake |-> IF ch = "None" THEN "ServerInitiated" ELSE ch,
            callback |-> ch = "None", ret |-> FALSE]
      [] ev = "recvZero" ->
           [closeHandshake |-> ch, callback |-> FALSE, ret |-> FALSE]
      [] OTHER ->
           [closeHandshake |-> ch, callback |-> FALSE, ret |-> TRUE]

\* Whether handling ev in close state ch writes a frame: the Pong reply,
\* the Close echo, the Close of closeConnection.
LoopWrites(ch, ev) ==
    \/ ev = "ping"
    \/ ev \in {"close", "unmasked"} /\ ch = "None"

\* The end of a read callback on session id, o being what LoopOutcome gave
\* when the frame was parsed: closeCallback if due, then
\* Poller::operator() removes the fd when receive returned false, and the
\* loop over closedWebSockets begins.
LoopAfterCallback(s, id, ev, o) ==
    [s EXCEPT
       !.closedWebSockets = IF o.callback THEN @ \cup {id} ELSE @,
       !.pollFDs = IF o.ret THEN @ ELSE @ \ {id},
       !.zeroRead = IF ev = "recvZero" THEN @ \cup {id} ELSE @,
       !.negativeRead = IF ev = "recvNegative" THEN @ \cup {id} ELSE @ \ {id},
       !.sched = "erase", !.visited = {},
       !.cur = NoCur]

\* poller( 500 ) finds the fd of the registered session id readable and
\* calls WebSocket::receive: recv and parseFrame up to the frame they
\* write, if any; the close state is stored before the frame is sent.
LoopDispatch(id, ev) ==
    /\ server.pc = "loop"
    /\ server.sched = "poll"
    /\ id \in server.pollFDs /\ id \in server.webSockets
    /\ server.events < MaxLoopEvents
    /\ LET o == LoopOutcome(server.closeHandshake[id], ev)
           s == [server EXCEPT !.events = @ + 1,
                               !.closeHandshake[id] = o.closeHandshake]
       IN IF LoopWrites(server.closeHandshake[id], ev)
          THEN server' = [s EXCEPT
                 !.sched = "send",
                 !.cur = [id |-> id, ev |-> ev, callback |-> o.callback,
                          ret |-> o.ret]]
          ELSE server' = LoopAfterCallback(s, id, ev, o)
    /\ ServerUnchanged

\* ::send inside sendFrame returns: the socket's buffer took the frame.
LoopSendReturns ==
    /\ server.pc = "loop"
    /\ server.sched = "send"
    /\ server.room[server.cur.id] > 0
    /\ server' = LoopAfterCallback(
                    [server EXCEPT !.room[server.cur.id] = @ - 1],
                    server.cur.id, server.cur.ev, server.cur)
    /\ ServerUnchanged

\* The peer reads what the server has sent on session id.
LoopPeerReads(id) ==
    /\ server.pc = "loop"
    /\ server.room[id] < SendBufferFrames
    /\ server' = [server EXCEPT !.room[id] = SendBufferFrames]
    /\ ServerUnchanged

\* The fd of a destroyed session is still in the Poller's slots and is
\* reported readable (MHD has not closed the socket yet, or a new
\* connection has been given the fd number): the callback, bound to the
\* address of the destroyed WebSocket, runs.  What it reads there is not
\* defined: it returns either value and may invoke closeCallback.
LoopDispatchDestroyed(id, callback, ret) ==
    /\ server.pc = "loop"
    /\ server.sched = "poll"
    /\ id \in server.pollFDs /\ id \notin server.webSockets
    /\ server.events < MaxLoopEvents
    /\ server' = [server EXCEPT
         !.events = @ + 1,
         !.stale = @ \cup {id},
         !.closedWebSockets = IF callback THEN @ \cup {id} ELSE @,
         !.pollFDs = IF ret THEN @ ELSE @ \ {id},
         !.sched = "erase", !.visited = {}]
    /\ ServerUnchanged

\* One iteration of the loop over closedWebSockets: under webSocketMutex,
\* find the id and erase its session; at an unknown id the function
\* returns.
LoopErase(id) ==
    /\ server.pc = "loop"
    /\ server.sched = "erase"
    /\ id \in server.closedWebSockets \ server.visited
    /\ IF id \in server.webSockets
       THEN server' = [server EXCEPT
              !.webSockets = @ \ {id}, !.visited = @ \cup {id}]
       ELSE server' = [server EXCEPT !.sched = "returned"]
    /\ ServerUnchanged

\* The loop has been at every id: closedWebSockets.clear(), and back to
\* the while.
LoopClear ==
    /\ server.pc = "loop"
    /\ server.sched = "erase"
    /\ server.closedWebSockets \subseteq server.visited
    /\ server' = [server EXCEPT !.closedWebSockets = {}, !.sched = "check"]
    /\ ServerUnchanged

\* A user thread calls sendClose on the handle of session id: past the
\* guard it stores eServerInitiated and sends the Close frame.
LoopUserSendClose(id) ==
    /\ server.pc = "loop"
    /\ server.user[id] = "idle"
    /\ id \in server.webSockets
    /\ server.room[id] > 0
    /\ LET c == SendClose(server.closeHandshake[id], GoingAway, <<>>)
       IN server' = [server EXCEPT
            !.closeHandshake[id] = c.closeHandshake,
            !.room[id] = IF c.frames = <<>> THEN @ ELSE @ - 1,
            !.user[id] = IF c.callback THEN "callback" ELSE "done"]
    /\ ServerUnchanged

\* The last statement of that sendClose: closeCallback( connectionID ).
\* If the scheduler has destroyed the session in the meantime (a Close
\* frame of the peer was handled), the std::function and the id are read
\* from the destroyed object: the id is inserted or it is not.
LoopUserCloseCallback(id, inserted) ==
    /\ server.pc = "loop"
    /\ server.user[id] = "callback"
    /\ id \in server.webSockets => inserted
    /\ server' = [server EXCEPT
         !.closedWebSockets = IF inserted THEN @ \cup {id} ELSE @,
         !.user[id] = "done"]
    /\ ServerUnchanged

\* ~Private: webSocketRunning = false.
LoopStop ==
    /\ server.pc = "loop"
    /\ server.dtor = "idle"
    /\ server' = [server EXCEPT !.running = FALSE, !.dtor = "joining"]
    /\ ServerUnchanged

\* ~Private: webSocketThread.join() returns once the thread has ended.
LoopJoin ==
    /\ server.pc = "loop"
    /\ server.dtor = "joining"
    /\ server.sched \in {"exited", "returned"}
    /\ server' = [server EXCEPT !.dtor = "joined"]
    /\ ServerUnchanged

\* The steps of the scheduler thread that do not wait for a peer.
LoopThread ==
    \/ LoopCheck
    \/ LoopPollIdle(0)
    \/ LoopSendReturns
    \/ \E id \in LoopIds : LoopErase(id)
    \/ LoopClear

LoopNext ==
    \/ LoopCheck
    \/ \E pollResult \in {-1, 0} : LoopPollIdle(pollResult)
    \/ \E id \in LoopIds, ev \in LoopEvents : LoopDispatch(id, ev)
    \/ LoopSendReturns
    \/ \E id \in LoopIds : LoopPeerReads(id)
    \/ \E id \in LoopIds, callback, ret \in BOOLEAN :
          LoopDispatchDestroyed(id, callback, ret)
    \/ \E id \in LoopIds : LoopErase(id)
    \/ LoopClear
    \/ \E id \in LoopIds : LoopUserSendClose(id)
    \/ \E id \in LoopIds, inserted \in BOOLEAN : LoopUserCloseCallback(id, inserted)
    \/ LoopStop
    \/ LoopJoin

LoopSpec == LoopInit /\ [][LoopNext]_vars

\* The scheduler thread and the joining destructor are scheduled; the
\* peers and the user threads are not bound to act.
LoopFairSpec == LoopSpec /\ WF_vars(LoopThread) /\ WF_vars(LoopJoin)

\* ------------------------------------- revoking a handle in its callback

\* A handle (a ws::Receivers or a ws::Handler) whose user function, run by
\* the handle under the mutex of its Impl / Private, may call stopReceiving
\* / stopHandling on a copy of the same handle; another thread may revoke
\* too.  The mutex is a std::mutex.
\*   kind: "Receivers" or "Handler"
\*   valid: whether the user function of each method is set
\*   mutex: "free", "caller" or "stopper"
\*   caller: the thread that calls the handle's method: pc "idle",
\*        "waiting" (for the mutex), "user" (inside the user function),
\*        "relock" (the user function has called stop..., which is about to
\*        lock the mutex), "blocked" (inside mutex.lock() for ever),
\*        "threw" (mutex.lock() threw std::system_error), "returned"
\*   stopper: the other thread: "idle", "locked", "returned"
RevokeKinds == {"Receivers", "Handler"}
RevokeMethods(kind) ==
    IF kind = "Receivers" THEN ReceiverMethods ELSE HandlerMethods

RevokeInit ==
    /\ InitSession /\ sm = SmIdle
    /\ webSocketHandler = HandlerIdle /\ http = HttpIdle
    /\ server = ServerIdle /\ senders = SendersIdle
    /\ \E kind \in RevokeKinds :
         receivers = [pc |-> "revoke", kind |-> kind,
                      valid |-> [m \in RevokeMethods(kind) |-> TRUE],
                      mutex |-> "free",
                      caller |-> [pc |-> "idle", method |-> "none"],
                      stopper |-> "idle", calls |-> 0, invoked |-> 0]

\* The handle's method is called and reaches the scoped_lock.
RevokeCall(m) ==
    /\ receivers.pc = "revoke"
    /\ m \in RevokeMethods(receivers.kind)
    /\ receivers.caller.pc \in {"idle", "returned"}
    /\ receivers.calls < MaxRevokeCalls
    /\ receivers' = [receivers EXCEPT
          !.calls = @ + 1, !.caller = [pc |-> "waiting", method |-> m]]
    /\ ReceiversUnchanged

\* std::scoped_lock l{ mutex }, then the user function is invoked if it is
\* set; a Receivers skips an empty one, a Handler calls it and
\* std::bad_function_call leaves the method.
RevokeLock ==
    /\ receivers.pc = "revoke"
    /\ receivers.caller.pc = "waiting" /\ receivers.mutex = "free"
    /\ IF receivers.valid[receivers.caller.method]
       THEN receivers' = [receivers EXCEPT
              !.mutex = "caller", !.caller.pc = "user", !.invoked = @ + 1]
       ELSE receivers' = [receivers EXCEPT !.caller.pc = "returned"]
    /\ ReceiversUnchanged

\* The user function returns without touching the handle: the scoped_lock
\* is released and the method returns.
RevokeUserReturns ==
    /\ receivers.pc = "revoke"
    /\ receivers.caller.pc = "user"
    /\ receivers' = [receivers EXCEPT !.mutex = "free", !.caller.pc = "returned"]
    /\ ReceiversUnchanged

\* The user function calls stopReceiving / stopHandling on a copy of the
\* handle: Impl::close / stopHandling reaches its scoped_lock on the same
\* mutex.
RevokeUserStops ==
    /\ receivers.pc = "revoke"
    /\ receivers.caller.pc = "user"
    /\ receivers' = [receivers EXCEPT !.caller.pc = "relock"]
    /\ ReceiversUnchanged

\* mutex.lock() by the thread that owns the std::mutex: the behaviour is
\* undefined; the thread waits for ever or lock() throws
\* std::system_error( resource_deadlock_would_occur ).
RevokeRelockOutcomes == {"blocked", "threw"}

RevokeRelock(outcome) ==
    /\ receivers.pc = "revoke"
    /\ receivers.caller.pc = "relock"
    /\ receivers.mutex = "caller"
    /\ receivers' = [receivers EXCEPT !.caller.pc = outcome]
    /\ ReceiversUnchanged

\* Another thread calls stopReceiving / stopHandling and takes the mutex.
RevokeStopLock ==
    /\ receivers.pc = "revoke"
    /\ receivers.stopper = "idle" /\ receivers.mutex = "free"
    /\ receivers' = [receivers EXCEPT !.mutex = "stopper", !.stopper = "locked"]
    /\ ReceiversUnchanged

\* Under the mutex it resets both functions, releases and returns.
RevokeStopReset ==
    /\ receivers.pc = "revoke"
    /\ receivers.stopper = "locked"
    /\ receivers' = [receivers EXCEPT
          !.valid = [m \in DOMAIN @ |-> FALSE],
          !.mutex = "free", !.stopper = "returned"]
    /\ ReceiversUnchanged

RevokeNext ==
    \/ \E m \in ReceiverMethods \cup HandlerMethods : RevokeCall(m)
    \/ RevokeLock
    \/ RevokeUserReturns
    \/ RevokeUserStops
    \/ \E outcome \in RevokeRelockOutcomes : RevokeRelock(outcome)
    \/ RevokeStopLock
    \/ RevokeStopReset

RevokeSpec == RevokeInit /\ [][RevokeNext]_vars

\* ------------------------------------------------------------- properties

DataFrameOpCodes == {Text, Binary, Continuation}

\* The call on the handle has returned.
Returned == call.pc = "done"

\* The indices of the Close echoes on the wire.
Echoes == { i \in DOMAIN wire : wire[i].src = "echo" }

\* The completed peer messages that have been delivered.
DeliveredMsgs == DOMAIN expected \cap DOMAIN delivered

\* C1: a call on the user's handle made once the session is gone (erased
\* from the registry after a peer Close, a server Close, a protocol error or
\* teardown) returns Closed and does not run inside the destroyed session.
C1_DeadHandleReturnsClosed ==
    (Returned /\ call.gone) => (call.result = "Closed" /\ ~call.dangling)

\* C2: a send called on a live session whose close-handshake state is not
\* None returns Closed, hands no frame to sendFrame and writes none.
C2_ClosedStateRefusesSends ==
    (call.op # "none" /\ ~call.gone /\ call.chAtCall # "None")
        => (call.pc = "done" /\ call.result = "Closed"
            /\ call.todo = <<>> /\ call.written = 0)

\* A send was called in state Complete (after a server Close and the peer's
\* answer) and refused.
C2_Witness ==
    /\ Returned /\ ~call.gone
    /\ call.chAtCall = "Complete" /\ call.op = "sendData"
    /\ call.result = "Closed"

\* C3: a peer Close received in an open session is echoed by exactly one
\* Close frame carrying the received payload, and no data frame is written
\* on the connection after that echo.
C3_EchoOnceThenNoData ==
    /\ closeHandshake = "ClientInitiated" => Cardinality(Echoes) = 1
    /\ Cardinality(Echoes) <= 1
    /\ \A i \in Echoes :
         /\ wire[i].opCode = ConnectionClose
         /\ controls # <<>>
         /\ wire[i].payload = controls[Len(controls)].payload
         /\ \A j \in DOMAIN wire : j > i => wire[j].opCode \notin DataFrameOpCodes

\* C4: the payload delivered for a fragmented Text message is the
\* concatenation of the payloads of all its fragments, in arrival order.
C4_ReassemblyConcatenates ==
    \A i \in DeliveredMsgs :
        (expected[i].fragments >= 2 /\ expected[i].opCode = Text)
            => delivered[i].payload = expected[i].payload

\* C5: the opcode delivered with a reassembled message is the opcode of its
\* initial frame, whatever the number of Continuation frames in between.
C5_ReassemblyKeepsOpCode ==
    \A i \in DeliveredMsgs :
        expected[i].fragments >= 2 => delivered[i].opCode = expected[i].opCode

\* C6: receiveData is invoked exactly once per complete inbound data message
\* (an unfragmented FIN=1 Text/Binary frame, or the FIN=1 Continuation of a
\* fragmented message), never for a non-final fragment, and after a delivery
\* the fragmentation buffer is empty.
C6_OneDeliveryPerMessage ==
    [][ /\ Len(delivered') = Len(expected')
        /\ Len(delivered') # Len(delivered)
             => /\ Len(delivered') = Len(delivered) + 1
                /\ ~fragmented'.present ]_vars

\* A fragmented message has been completed and delivered.
C6_Witness ==
    /\ Len(delivered) = 1 /\ Len(expected) = 1
    /\ expected[1].fragments >= 2
    /\ ~fragmented.present

\* ceil( a / b ) for b > 0.
Ceil(a, b) == (a + b - 1) \div b

\* The payloads of the frames, concatenated in order.
RECURSIVE Flatten(_)
Flatten(frames) ==
    IF frames = <<>> THEN <<>> ELSE Head(frames).payload \o Flatten(Tail(frames))

\* A sendMessage run has returned Success.
Sent == sm.pc = "returned" /\ sm.result = "Success"

\* C7: with maxFrameSize F > headerSize a message of N bytes goes out as one
\* Text FIN=1 frame when it fits, and else as ceil(N/(F-headerSize)) frames:
\* Text FIN=0 first, Continuation FIN=0 in the middle, Continuation FIN=1
\* last.
C7_FrameCountAndShape ==
    LET hdr == EncodedSizeInBytes(sm.n, FALSE)
        room == sm.maxFrameSize - hdr
        k == IF sm.n <= room THEN 1 ELSE Ceil(sm.n, room)
        fs == sm.frames
    IN (Sent /\ sm.maxFrameSize > hdr)
        => /\ Len(fs) = k
           /\ k = 1 => (fs[1].opCode = Text /\ fs[1].fin)
           /\ k > 1 => /\ fs[1].opCode = Text /\ ~fs[1].fin
                       /\ \A i \in 2..(k - 1) :
                            fs[i].opCode = Continuation /\ ~fs[i].fin
                       /\ fs[k].opCode = Continuation /\ fs[k].fin

\* C8: a sendData that succeeds with maxFrameSize > 0 emits only unmasked
\* frames of encoded size at most maxFrameSize whose payloads concatenate to
\* the message; with maxFrameSize = 0 it emits one Text FIN=1 frame carrying
\* the whole message.
C8_FramesFitAndCarryMessage ==
    Sent =>
        IF sm.maxFrameSize > 0
        THEN /\ \A i \in DOMAIN sm.frames :
                  /\ EncodedFrameSize(sm.frames[i]) <= sm.maxFrameSize
                  /\ ~sm.frames[i].isMasked
             /\ Flatten(sm.frames) = Message(sm.n)
        ELSE sm.frames = <<[opCode |-> Text, fin |-> TRUE, isMasked |-> FALSE,
                            payload |-> Message(sm.n)]>>

\* A message with a 4-byte header has gone out in three or more frames.
C8_Witness ==
    /\ Sent /\ sm.maxFrameSize > 0
    /\ sm.n >= 126 /\ Len(sm.frames) >= 3

\* C9: sendData on an open session with 0 < maxFrameSize <= encoded header
\* size returns FrameSizeTooSmall and writes no frame.
C9_TooSmallResult ==
    (/\ sm.pc = "returned" /\ sm.closeHandshake = "None"
     /\ sm.maxFrameSize > 0
     /\ sm.maxFrameSize <= EncodedSizeInBytes(sm.n, FALSE))
        => (sm.result = "FrameSizeTooSmall" /\ sm.frames = <<>>)

\* C10: sendPing and sendPong on an open session, their frame written,
\* return Success.
C10_PingPongSuccess ==
    (/\ Returned /\ call.op \in {"sendPing", "sendPong"}
     /\ call.chAtCall = "None" /\ ~call.gone /\ ~call.dangling
     /\ call.written = 1)
        => call.result = "Success"

\* C11: every control frame the server writes is one frame with a payload of
\* at most 125 bytes, whatever payload or reason string the caller passes.
C11_ControlPayloadAtMost125 ==
    sm.pc = "ctlReturned" =>
        /\ Len(sm.frames) <= 1
        /\ \A i \in DOMAIN sm.frames :
             /\ sm.frames[i].opCode \in ControlOpCodes
             /\ Len(sm.frames[i].payload) <= 125

\* The status code a Close payload starts with.
StatusCodeOf(payload) == payload[1] * 256 + payload[2]

\* The step wrote exactly one frame, a Close frame with status code 1002.
WroteClose1002 ==
    /\ Len(wire') = Len(wire) + 1
    /\ SubSeq(wire', 1, Len(wire)) = wire
    /\ LET w == wire'[Len(wire')]
       IN /\ w.opCode = ConnectionClose
          /\ Len(w.payload) >= 2
          /\ StatusCodeOf(w.payload) = 1002

\* The step ended the read: the close callback has queued the session for
\* removal, the fd is out of the poller, the rest of the batch is dropped
\* and no receiver was invoked.
ReadEndedUndelivered ==
    /\ ConnID \in closedWebSockets'
    /\ ConnID \notin pollFDs'
    /\ pending' = 0 /\ schedPc' = "reap"
    /\ delivered' = delivered
    /\ controls' = controls

\* C12: for every frame received with the mask bit clear while the session
\* is open, the server writes one Close frame with status code 1002, invokes
\* the close callback, returns false so that the fd leaves the poller, and
\* delivers neither that frame nor a later frame of the same read.
C12_UnmaskedFrameCloses1002 ==
    [][ \A f \in PeerFrames(nFrames + 1) :
          (ParseFrame(f) /\ ~f.isMasked /\ closeHandshake = "None")
              => (WroteClose1002 /\ ReadEndedUndelivered) ]_vars

\* An unmasked frame has been answered by Close(1002) with no reason, the
\* read has ended and nothing was delivered.
C12_Witness ==
    /\ schedPc = "reap" /\ nFrames = 1
    /\ delivered = <<>> /\ controls = <<>>
    /\ ConnID \notin pollFDs /\ ConnID \in closedWebSockets
    /\ \E i \in DOMAIN wire :
         wire[i].src = "error" /\ wire[i].payload = <<3, 234>>

\* Frame f misuses fragmentation: a new data frame inside a fragmented
\* message, or a Continuation outside one.
FragmentationMisuse(f) ==
    \/ f.opCode \in DataOpCodes /\ fragmented.present
    \/ f.opCode = Continuation /\ ~fragmented.present

\* C13: in an open session a masked Text or Binary frame received while the
\* fragmentation buffer is present, and a masked Continuation received while
\* it is absent, each cause one Close(1002) frame to be written, the close
\* callback to be invoked and the read to return false, with nothing
\* delivered to receiveData.
C13_FragmentationMisuseCloses1002 ==
    [][ \A f \in PeerFrames(nFrames + 1) :
          (/\ ParseFrame(f) /\ f.isMasked /\ closeHandshake = "None"
           /\ FragmentationMisuse(f))
              => (WroteClose1002 /\ ReadEndedUndelivered) ]_vars

\* A data frame arrived inside a fragmented message and was answered by
\* Close(1002) with the reason of that case; nothing was delivered.
C13_Witness ==
    /\ schedPc = "reap" /\ nFrames = 2
    /\ fragmented.present /\ delivered = <<>>
    /\ ConnID \notin pollFDs /\ ConnID \in closedWebSockets
    /\ \E i \in DOMAIN wire :
         /\ wire[i].src = "error"
         /\ wire[i].payload \in {<<3, 234>> \o ReasonUnexpectedText,
                                 <<3, 234>> \o ReasonUnexpectedBinary}

\* The step left the session as it was: open, registered with the poller,
\* not queued for removal, its fragmentation buffer untouched.
SessionStaysOpen ==
    /\ closeHandshake' = "None"
    /\ fragmented' = fragmented
    /\ pollFDs' = pollFDs
    /\ closedWebSockets' = closedWebSockets

\* C14: for every masked Ping frame with payload P received in an open
\* session, receiveControl(id, Ping, P) is invoked and exactly one unmasked
\* Pong frame with payload P is written; the session stays open and the
\* fragmentation buffer is unchanged.
C14_PingAnsweredByPong ==
    [][ \A f \in PeerFrames(nFrames + 1) :
          (/\ ParseFrame(f) /\ f.isMasked /\ closeHandshake = "None"
           /\ f.opCode = Ping)
              => /\ controls' = Append(controls, [opCode |-> Ping, payload |-> f.payload])
                 /\ delivered' = delivered
                 /\ Len(wire') = Len(wire) + 1
                 /\ SubSeq(wire', 1, Len(wire)) = wire
                 /\ wire'[Len(wire')].opCode = Pong
                 /\ ~wire'[Len(wire')].isMasked
                 /\ wire'[Len(wire')].payload = f.payload
                 /\ SessionStaysOpen ]_vars

\* A Ping received in the middle of a fragmented message has been reported
\* and answered, and the session is still open with the buffer in place.
C14_Witness ==
    /\ closeHandshake = "None" /\ fragmented.present
    /\ ConnID \in pollFDs /\ ConnID \in webSockets
    /\ Len(controls) = 1 /\ controls[1].opCode = Ping
    /\ \E i \in DOMAIN wire :
         /\ wire[i].src = "pong" /\ wire[i].opCode = Pong
         /\ wire[i].payload = controls[1].payload

\* C15: every masked Pong frame received in an open session is delivered as
\* receiveControl(id, Pong, payload), with control opcode Pong; no frame is
\* sent in response and the session stays open.
C15_PongDeliveredAsPong ==
    [][ \A f \in PeerFrames(nFrames + 1) :
          (/\ ParseFrame(f) /\ f.isMasked /\ closeHandshake = "None"
           /\ f.opCode = Pong)
              => /\ controls' = Append(controls, [opCode |-> Pong, payload |-> f.payload])
                 /\ wire' = wire
                 /\ SessionStaysOpen ]_vars

\* C16: when the ControlReceiver is invoked with a Close frame sent by the
\* peer, the Senders are already closed: a sendData, sendClose, sendPing or
\* sendPong made from inside that callback returns Closed and puts nothing
\* on the wire.
C16_SendInCloseCallbackRefused ==
    call.op # "none" =>
        /\ call.result = "Closed"
        /\ call.written = 0
        /\ \A i \in DOMAIN wire : wire[i].src # "callback"

\* C17: after user code has called sendClose on an open session, the
\* scheduler keeps the session until the peer's Close echo has arrived or
\* more than 2000 ms have passed since the Close was sent; it destroys the
\* session only after one of these two events.
C17_SessionKeptForEchoOrTimeout ==
    (clock.closeSentTimePoint >= 0 /\ running /\ ConnID \notin webSockets)
        => \/ closeHandshake = "Complete"
           \/ clock.now - clock.closeSentTimePoint > CloseTimeoutMs

\* C18: receiveData and receiveControl return false and invoke nothing on a
\* default-constructed handle and return true on a handle built from user
\* functions; once stopReceiving has returned on any copy no user receiver
\* is invoked again through any copy, and both methods still return true.
C18_ReceiversHandle ==
    [][ /\ (receivers.d = "null" \/ receivers.stopped)
            => receivers'.invoked = receivers.invoked
        /\ (receivers.caller.pc # "returned" /\ receivers'.caller.pc = "returned")
            => receivers'.caller.ret = (receivers.d # "null") ]_vars

\* A handle built from two valid functions was stopped before any call ran
\* a receiver; all the calls made on it have returned true.
C18_Witness ==
    /\ receivers.d = "impl" /\ receivers.stopped
    /\ receivers.built.receiveData /\ receivers.built.receiveControl
    /\ receivers.calls = MaxReceiverCalls
    /\ receivers.caller.pc = "returned" /\ receivers.caller.ret
    /\ receivers.invoked = [receiveData |-> 0, receiveControl |-> 0]

QualifiesForUpgrade(r) ==
    /\ r.method = "GET"
    /\ r.version \in {<<1, 1>>}
    /\ r.handled
    /\ r.headers[Host] = "set"
    /\ r.headers[Upgrade] = "websocket"
    /\ r.headers[Connection] = "Upgrade"
    /\ r.headers[SecWebSocketVersion] = "set"
    /\ r.headers[SecWebSocketKey] = "set"

\* C20: whatever requests came before, a request is answered with 101
\* Switching Protocols only if the request itself qualifies for the upgrade,
\* and a request missing a mandatory header gets the RequestHandler's
\* response.
C20_UpgradeOnlyOnOwnHeaders ==
    http.served > 0 =>
        /\ http.response = "101" => QualifiesForUpgrade(http.request)
        /\ (\E h \in HeaderNames : http.request.headers[h] = "absent")
              => http.response = "RequestHandler"

\* What a header field name or value is in lower case.
LowerCase(s) ==
    CASE s = Host -> "host"
      [] s = Upgrade -> "upgrade"
      [] s = Connection -> "connection"
      [] s = SecWebSocketVersion -> "sec-websocket-version"
      [] s = SecWebSocketKey -> "sec-websocket-key"
      [] s = "WebSocket" -> "websocket"
      [] OTHER -> s

\* The comma-separated tokens of a header value.
Tokens(v) ==
    CASE v = "keep-alive, upgrade" -> {"keep-alive", "upgrade"}
      [] OTHER -> {v}

\* The request carries header h under some spelling of its name.
CarriesHeader(r, h) ==
    \E k \in SpelledNames : LowerCase(k) = LowerCase(h) /\ r.headers[k] # "absent"

\* The request carries header h with a value that has the token, both
\* compared without regard to case.
CarriesToken(r, h, token) ==
    \E k \in SpelledNames :
        /\ LowerCase(k) = LowerCase(h)
        /\ \E t \in Tokens(r.headers[k]) : LowerCase(t) = LowerCase(token)

\* C21: a request that carries the five headers under any spelling of their
\* names, with an Upgrade value containing the token websocket and a
\* Connection value containing the token Upgrade in any case, is answered 101.
C21_HeaderMatchIgnoresCase ==
    (/\ http.served > 0
     /\ CarriesHeader(http.request, Host)
     /\ CarriesToken(http.request, Upgrade, "websocket")
     /\ CarriesToken(http.request, Connection, "Upgrade")
     /\ CarriesHeader(http.request, SecWebSocketVersion)
     /\ CarriesHeader(http.request, SecWebSocketKey))
        => http.response = "101"

\* C22: the ConnectionIDs given to the sessions of one process, in the order
\* they were given, are strictly increasing (so no two sessions share one),
\* also when two Server instances upgrade at the same time.
C22_ConnectionIDsStrictlyIncrease ==
    \A m, n \in 1..Len(server.assigned) :
        m < n => server.assigned[m].id < server.assigned[n].id

\* The Close frames with status code 1001 that teardown wrote to a session.
TeardownCloses(id) ==
    { n \in 1..Len(server.wire[id]) :
        /\ server.wire[id][n].src = "teardown"
        /\ server.wire[id][n].opCode = ConnectionClose
        /\ StatusCodeOf(server.wire[id][n].payload) = GoingAway }

\* C23: when teardown has finished, every session that teardown found
\* registered with close state None has been sent exactly one Close frame
\* with code 1001, and the registry is empty, also when an upgrade completed
\* while teardown was in progress.
C23_TeardownClosesAndEmptiesRegistry ==
    server.dtor = "done" =>
        /\ \A id \in server.foundNone : Cardinality(TeardownCloses(id)) = 1
        /\ server.webSockets = {}

\* C24: a construction with a port outside 1..65535, with
\* maxSocketBytesToReceive 0, without a RequestHandler, or whose HTTP engine
\* fails to start, ends with a runtime_error leaving the constructor, with
\* or without a ws::Handler.
C24_ConstructionFailsWithRuntimeError ==
    (/\ server.at = "done"
     /\ \/ server.config.port < 1 \/ server.config.port > 65535
        \/ server.config.maxSocketBytesToReceive = 0
        \/ ~server.requestHandler
        \/ server.mhd = "null")
        => server.outcome = "runtime_error"

\* C25: once the session's fd has been polled, the frames handed over as
\* extraData have been given to the session's decoder, ahead of anything
\* read from the socket.
C25_ExtraDataDecodedBeforeFirstPoll ==
    server.polled =>
        /\ Len(server.decoded) >= Len(server.extraData)
        /\ SubSeq(server.decoded, 1, Len(server.extraData)) = server.extraData

\* C29: while the user's IsHandled, ConnectionEstablished or DataReceiver
\* runs, the thread that runs it holds no mutex of the library.
C29_NoLockHeldInUserCallback ==
    /\ server.mhd \in {"isHandled", "connectionEstablished"} => server.held.mhd = {}
    /\ server.sched = "receiveData" => server.held.sched = {}

\* C26: on the wire the frames of one user send call are contiguous: no
\* frame of another user call lies between two frames of the same call.
C26_UserSendsDoNotInterleave ==
    \A i, j, k \in 1..Len(senders.wire) :
        (i < j /\ j < k /\ senders.wire[i].call = senders.wire[k].call)
            => senders.wire[j].call = senders.wire[i].call

\* Two threads have sent; one of the calls was a message of two frames.
C26_Witness ==
    /\ \E i, j \in 1..Len(senders.wire) :
          senders.wire[i].thread # senders.wire[j].thread
    /\ \E i \in 1..Len(senders.wire) :
          /\ i < Len(senders.wire)
          /\ senders.wire[i].call = senders.wire[i + 1].call
          /\ senders.wire[i + 1].frame.opCode \in DataFrameOpCodes

\* C28: the user thread and the scheduler thread are never both inside a
\* frame write on the session's socket, and on the wire the bytes of one
\* frame are not separated by bytes of another frame.
C28_FrameWritesMutuallyExclusive ==
    /\ ~(senders.writer["user"].pc = "sending" /\ senders.writer["sched"].pc = "sending")
    /\ \A i, j, k \in 1..Len(senders.wire) :
          (i < j /\ j < k /\ senders.wire[i].frame = senders.wire[k].frame)
              => senders.wire[j].frame = senders.wire[i].frame

\* C30: no id passed to the close callback is lost: it is in the
\* close-pending set until the scheduler has erased its session from the
\* registry.
C30_NoClosedIdLost ==
    \A id \in server.called :
        id \in server.closedWebSockets \/ id \notin server.webSockets

\* "s3pPLMBiTxaQ9kYGzzhZRbK+xOo=" and "/hT7YtboVqWVRzRTxrBDPVrPBvc=": the
\* values RFC 6455 4.2.2 gives for the two keys.
SampleAccept ==
    <<"s", "3", "p", "P", "L", "M", "B", "i", "T", "x", "a", "Q", "9", "k",
      "Y", "G", "z", "z", "h", "Z", "R", "b", "K", "+", "x", "O", "o", "=">>

CommentAccept ==
    <<"/", "h", "T", "7", "Y", "t", "b", "o", "V", "q", "W", "V", "R", "z",
      "R", "T", "x", "r", "B", "D", "P", "V", "r", "P", "B", "v", "c", "=">>

InPollSet(fd, callback) ==
    \E i \in DOMAIN server.pollFDs :
        server.pollFDs[i] = fd /\ server.pollCallbacks[i] = callback

\* C34: a poll cycle applies the pending removals before the pending
\* additions: when remove(fd) and then add(fd, cb) were queued before the
\* cycle, fd is in the poll set with callback cb once the cycle has applied
\* its additions; and an fd whose callback returned false is not dispatched
\* in a later cycle unless add was called for it again.
C34_RemovalsBeforeAdditions ==
    /\ server.step = "poll" =>
          \A r \in server.requeued : InPollSet(r.fd, r.callback)
    /\ server.dispatched \cap server.retiredBefore = {}

\* C36: slot allocation loses no registration: every fd an add registered
\* and no removal or false callback result took out is in the poll set with
\* its callback, and nextAvailable designates a free slot or the end of the
\* vector.
C36_NoRegistrationLost ==
    /\ \A r \in server.registered : InPollSet(r.fd, r.callback)
    /\ \/ server.nextAvailable = Len(server.pollFDs)
       \/ server.pollFDs[server.nextAvailable + 1] < 0

\* The bytes of frame f on the socket, in the order they were written.
FrameBytes(f) == SelectSeq(senders.wire, LAMBDA b : b.frame = f)

\* C33: under short writes sendFrame goes on with the unsent remainder:
\* the remaining-byte counter never goes below zero, and when sendFrame
\* returns Success the bytes it put on the socket are those of the encoded
\* header followed by the payload, each once and in order.
C33_ShortWriteSendsRemainder ==
    \A t \in Writers :
        LET w == senders.writer[t]
        IN /\ w.numBytesRemaningToBeSent >= 0
           /\ w.result = "Success" =>
                 FrameBytes(w.frame) =
                     [i \in 1..w.numBytesToSend |->
                         [writer |-> t, frame |-> w.frame, offset |-> i]]

\* C31: an id in the close-pending set that is not in the registry is
\* discarded and the scheduler keeps running: the loop over the set does
\* not end the thread while the server is running.
C31_UnknownIdDiscarded ==
    server.sched # "returned"

\* C32: a session whose recv returned 0 has its fd out of the poll set
\* and, once the pass of that cycle is over, is out of the registry; a
\* session whose recv returned a negative value stays in the poll set.
C32_HangUpRetiresSession ==
    /\ \A id \in server.zeroRead :
          /\ id \notin server.pollFDs
          /\ server.sched \in {"check", "poll"} => id \notin server.webSockets
    /\ \A id \in server.negativeRead : id \in server.pollFDs

\* C35: once the destructor has stored running = false, the scheduler
\* thread ends and the join returns.
C35_JoinTerminates ==
    (server.dtor = "joining") ~> (server.dtor = "joined")

\* C37: the read callback of a destroyed session is never invoked: when
\* the scheduler polls, the fd of every session it has erased is out of
\* the poll set.
C37_NoCallbackOnDestroyedSession ==
    /\ server.stale = {}
    /\ server.sched = "poll" => server.pollFDs \subseteq server.webSockets

\* C38: once a Close frame has been written on the connection, no further
\* frame of any kind is written on it: a Close on the wire is the last
\* frame on the wire.
C38_NothingWrittenAfterClose ==
    \A i \in DOMAIN wire :
        wire[i].opCode = ConnectionClose => i = Len(wire)

\* C39: revoking a handle from inside its own callback does not deadlock:
\* the thread that runs the user function and calls stopReceiving /
\* stopHandling on the same handle never waits for ever on the mutex it
\* holds, and the call does not end in an exception.
C39_RevokeInCallbackReturns ==
    receivers.caller.pc \notin {"blocked", "threw"}

\* C40: the Headers passed to the RequestHandler for a request are exactly
\* the header fields of that request, whatever requests came before.
C40_HandlerGetsOwnHeaders ==
    (http.served > 0 /\ http.response = "RequestHandler") =>
        http.passed = http.request.headers

====
